---- MODULE Spec2Model ----
(***************************************************************************)
(* Shrink-Shrink: the import / commit / filter / aggregate core of the     *)
(* inventory-variance dashboard.                                           *)
(*                                                                         *)
(* The repository holds three generations of the application component:   *)
(*   "App"  - src/App.tsx            (an upload commits straight away)     *)
(*   "P000" - src/unnamed/part_000   (an upload is staged, then committed) *)
(*   "P001" - src/unnamed/part_001   (staged; per-month removal)           *)
(* The variable `variant` says which of them is running; it never changes. *)
(*                                                                         *)
(* Text that the code inspects character by character (period labels,      *)
(* item numbers and item names) is a sequence of one-character strings.    *)
(* Text that the code only compares (market names, view names) is a        *)
(* TLA+ string.  Cell values that the code reads with parseFloat are       *)
(* integers.                                                               *)
(***************************************************************************)
EXTENDS Integers, Sequences, FiniteSets, Bags, TLC

\* ------------------------------------------------------------------ bounds
\* Date.now() readings range over 0..MaxClock.
MaxClock == 1
\* At most MaxReads FileReader reads are in flight at once.
MaxReads == 2
\* A session runs at most MaxSteps handlers (clicks, reader and promise
\* callbacks).
MaxSteps == 6

\* ------------------------------------------------------------ text helpers
UpperChars == <<"A","B","C","D","E","F","G","H","I","J","K","L","M",
                "N","O","P","Q","R","S","T","U","V","W","X","Y","Z">>
LowerChars == <<"a","b","c","d","e","f","g","h","i","j","k","l","m",
                "n","o","p","q","r","s","t","u","v","w","x","y","z">>

lowerChar(c) ==
  IF \E k \in DOMAIN UpperChars : UpperChars[k] = c
  THEN LowerChars[CHOOSE k \in DOMAIN UpperChars : UpperChars[k] = c]
  ELSE c

toLowerCase(s) == [i \in DOMAIN s |-> lowerChar(s[i])]

isSpace(c) == c = " "

trim(s) ==
  LET keep == {i \in DOMAIN s : ~isSpace(s[i])}
  IN IF keep = {} THEN <<>>
     ELSE LET lo == CHOOSE i \in keep : \A j \in keep : i <= j
              hi == CHOOSE i \in keep : \A j \in keep : j <= i
          IN SubSeq(s, lo, hi)

includes(s, sub) ==
  \E i \in 0..(Len(s) - Len(sub)) : SubSeq(s, i + 1, i + Len(sub)) = sub

startsWith(s, pre) ==
  Len(s) >= Len(pre) /\ SubSeq(s, 1, Len(pre)) = pre

\* --------------------------------------------------------------- constants
MONTH_ORDER ==
  << <<"J","a","n","u","a","r","y">>,
     <<"F","e","b","r","u","a","r","y">>,
     <<"M","a","r","c","h">>,
     <<"A","p","r","i","l">>,
     <<"M","a","y">>,
     <<"J","u","n","e">>,
     <<"J","u","l","y">>,
     <<"A","u","g","u","s","t">>,
     <<"S","e","p","t","e","m","b","e","r">>,
     <<"O","c","t","o","b","e","r">>,
     <<"N","o","v","e","m","b","e","r">>,
     <<"D","e","c","e","m","b","e","r">> >>

Months == {MONTH_ORDER[k] : k \in DOMAIN MONTH_ORDER}

Unknown == <<"U","n","k","n","o","w","n">>
Current == <<"C","u","r","r","e","n","t">>
March == MONTH_ORDER[3]
April == MONTH_ORDER[4]

\* a normalizer that answers in lower case
normalizePeriodLower(str) ==
  IF str = <<>> THEN Unknown
  ELSE LET normalized == toLowerCase(trim(str))
           hits == {k \in DOMAIN MONTH_ORDER :
                      includes(normalized, toLowerCase(MONTH_ORDER[k]))}
       IN IF hits # {}
          THEN toLowerCase(MONTH_ORDER[CHOOSE k \in hits : \A j \in hits : k <= j])
          ELSE str

\* const normalizePeriod (App.tsx, part_000): the first month of MONTH_ORDER
\* whose lower-cased name occurs in the trimmed, lower-cased input; else the
\* input itself, untouched.
normalizePeriod(str) ==
  IF str = <<>> THEN Unknown
  ELSE LET normalized == toLowerCase(trim(str))
           hits == {k \in DOMAIN MONTH_ORDER :
                      includes(normalized, toLowerCase(MONTH_ORDER[k]))}
       IN IF hits # {}
          THEN MONTH_ORDER[CHOOSE k \in hits : \A j \in hits : k <= j]
          ELSE str

\* const normalizePeriod (part_001): as above, then three-letter prefixes.
normalizePeriodAbbrev(str) ==
  IF str = <<>> THEN Unknown
  ELSE LET normalized == toLowerCase(trim(str))
           hits == {k \in DOMAIN MONTH_ORDER :
                      includes(normalized, toLowerCase(MONTH_ORDER[k]))}
           abbr == {k \in DOMAIN MONTH_ORDER :
                      startsWith(normalized,
                                 SubSeq(toLowerCase(MONTH_ORDER[k]), 1, 3))}
       IN IF hits # {}
          THEN MONTH_ORDER[CHOOSE k \in hits : \A j \in hits : k <= j]
          ELSE IF abbr # {}
          THEN MONTH_ORDER[CHOOSE k \in abbr : \A j \in abbr : k <= j]
          ELSE str

\* The period labels that occur: a month tile's name, 'Current', or nothing.
\* The two normalizers tabulated over them, so that a label is normalized
\* once and not once per record per step.
PeriodLabels == Months \cup {Current, Unknown, <<>>}
NormalizedPeriod == [p \in PeriodLabels |-> normalizePeriod(p)]
NormalizedPeriodAbbrev == [p \in PeriodLabels |-> normalizePeriodAbbrev(p)]

\* The normalizer of the running variant.
norm(v, str) ==
  IF v = "P001" THEN NormalizedPeriodAbbrev[str] ELSE NormalizedPeriod[str]

\* ------------------------------------------------------------- input files
\* A sheet is the market label of its metadata rows and the rows below its
\* header row, already indexed by the detected column map
\* (itemNum, itemName, variance, revenue, soldQty, salePrice, itemCost; the
\* `loss` cell is column 6, which only part_001 reads).
Row(num, name, var, rev, qty, price, cost, loss) ==
  [itemNum |-> num, itemName |-> name, variance |-> var, revenue |-> rev,
   soldQty |-> qty, salePrice |-> price, itemCost |-> cost, loss |-> loss]

s_KF1   == <<"K","F","1">>
s_Wrap  == <<"W","r","a","p">>
s_B1    == <<"B","-","1">>
s_Chips == <<"C","h","i","p","s">>
s_200   == <<"2","0","0">>
s_FBar  == <<"f"," ","B","a","r">>
s_Total == <<"T","o","t","a","l">>
s_UnnamedItem == <<"U","n","n","a","m","e","d"," ","I","t","e","m">>

\* A workbook is a sequence of sheets.
Workbooks ==
  << \* market A: a snack over by one whose unit cost reads negative, and a
     \* row without variance; market B: a cold item short by two, a footer
     \* row and a blank row
     << [market |-> "A",
         rows |-> << Row(s_B1, s_Chips, 1, 0, 2, 3, 0 - 2, 0),
                     Row(s_200, s_FBar, 0, 5, 1, 5, 2, 0) >>],
        [market |-> "B",
         rows |-> << Row(s_KF1, s_Wrap, 0 - 2, 10, 0, 0, 3, 6),
                     Row(<<>>, s_Total, 0 - 2, 15, 0, 0, 3, 6),
                     Row(<<>>, <<>>, 0, 0, 0, 0, 0, 0) >>] >>,
     \* nothing but a footer without variance and a blank row: no record in
     \* any variant
     << [market |-> "A",
         rows |-> << Row(<<>>, s_Total, 0, 0, 0, 0, 0, 0),
                     Row(<<>>, <<>>, 0, 0, 0, 0, 0, 0) >>] >> >>

Files == DOMAIN Workbooks

Abs(x) == IF x < 0 THEN 0 - x ELSE x

\* the images F(x) of the members x of s that satisfy T(x), in order
SelectMap(s, T(_), F(_)) ==
  LET kept == SelectSeq(s, T)
  IN [i \in DOMAIN kept |-> F(kept[i])]

\* Array.from(new Set(s)): the first occurrences, in order
RECURSIVE distinctInOrder(_)
distinctInOrder(s) ==
  IF s = <<>> THEN <<>>
  ELSE LET front == distinctInOrder(SubSeq(s, 1, Len(s) - 1))
           x == s[Len(s)]
       IN IF \E i \in DOMAIN front : front[i] = x THEN front
          ELSE Append(front, x)

\* humanMarketNames (part_000 349-350), detectedMarkets (part_001 246, 257)
marketNamesOf(wb) == distinctInOrder([k \in DOMAIN wb |-> wb[k].market])

\* [...a, ...b, ...] over a sequence of sequences
RECURSIVE Flatten(_)
Flatten(ss) == IF ss = <<>> THEN <<>> ELSE Head(ss) \o Flatten(Tail(ss))

\* ------------------------------------------------------ segment classifier
\* /^(KF|F\s|B\s)/i.test(s)
coldPrefix(s) ==
  LET l == toLowerCase(s)
  IN \/ startsWith(l, <<"k","f">>)
     \/ Len(l) >= 2 /\ l[1] \in {"f", "b"} /\ isSpace(l[2])

\* /^(KF|F|B|MG)(\s+|-|$)/i.test(s)   (part_001)
coldPrefixWide(s) ==
  LET l == toLowerCase(s)
  IN \E pre \in {<<"k","f">>, <<"f">>, <<"b">>, <<"m","g">>} :
       /\ startsWith(l, pre)
       /\ \/ Len(l) = Len(pre)
          \/ isSpace(l[Len(pre) + 1])
          \/ l[Len(pre) + 1] = "-"

\* The item numbers and names that occur in the input files, and the two
\* patterns tabulated over them.
SheetsOf(wb) == {wb[k] : k \in DOMAIN wb}
RowsOf(sheet) == {sheet.rows[i] : i \in DOMAIN sheet.rows}
ItemTexts ==
  UNION {{r.itemNum, r.itemName, trim(r.itemNum), trim(r.itemName)} :
           r \in UNION {RowsOf(sh) :
                          sh \in UNION {SheetsOf(Workbooks[f]) : f \in Files}}}
    \cup {s_UnnamedItem}
ColdPrefix == [s \in ItemTexts |-> coldPrefix(s)]
ColdPrefixWide == [s \in ItemTexts |-> coldPrefixWide(s)]

\* isCold of filteredRecords (App.tsx, part_000); isColdFoodManual of the
\* language-model service.
isCold(itemNumber, itemName) == ColdPrefix[itemNumber] \/ ColdPrefix[itemName]


\* isColdFood (part_001)
isColdFood(r) == ColdPrefixWide[r.itemNumber] \/ ColdPrefixWide[r.itemName]

\* ---------------------------------------------------------------- extractor
\* src/App.tsx 521-556: the rows kept and the record built from each
keepRowTail(row) == ~includes(toLowerCase(row.itemName), <<"t","o","t","a","l">>)

keepRow(row) ==
  /\ ~(row.itemNum = <<>> /\ row.itemName = <<>>)
  /\ keepRowTail(row)

shrinkLossOf(invVar, cost) == IF invVar < 0 THEN Abs(invVar * cost) ELSE 0

overageGainOf(invVar, cost) == IF invVar > 0 THEN invVar * cost ELSE 0

buildRecord(row, cleanName, period) ==
  LET invVar == row.variance
      cost == row.itemCost
      price == row.salePrice
      qty == row.soldQty
      totalRevenue == IF row.revenue = 0 /\ price > 0 /\ qty > 0
                      THEN price * qty ELSE row.revenue
      shrinkLoss == shrinkLossOf(invVar, cost)
      overageGain == overageGainOf(invVar, cost)
  IN [itemNumber |-> row.itemNum, itemName |-> row.itemName,
      invVariance |-> invVar, totalRevenue |-> totalRevenue,
      shrinkLoss |-> shrinkLoss, overageGain |-> overageGain,
      netVarianceValue |-> overageGain - shrinkLoss,
      unitCost |-> cost, soldQty |-> qty, salePrice |-> price,
      itemProfit |-> IF price > 0 THEN (price - cost) * qty ELSE 0,
      marketName |-> cleanName, period |-> period]

extractSheet(sheet, period) ==
  LET Build(row) == buildRecord(row, sheet.market, period)
  IN SelectMap(sheet.rows, keepRow, Build)

extractRecords(wb, period) ==
  Flatten([k \in DOMAIN wb |-> extractSheet(wb[k], period)])

\* src/unnamed/part_000 373-394
keepRowStaged(row) == row.variance # 0

buildRecordStaged(row, cleanName, period) ==
  LET invVar == row.variance
      cost == row.itemCost
      price == row.salePrice
      qty == row.soldQty
  IN [itemNumber |-> row.itemNum, itemName |-> row.itemName,
      invVariance |-> invVar, totalRevenue |-> row.revenue,
      shrinkLoss |-> IF invVar < 0 THEN Abs(invVar * cost) ELSE 0,
      unitCost |-> cost, soldQty |-> qty, salePrice |-> price,
      itemProfit |-> IF price > 0 THEN (price - cost) * qty ELSE 0,
      marketName |-> cleanName, period |-> period]

extractSheetStaged(sheet, period) ==
  LET Build(row) == buildRecordStaged(row, sheet.market, period)
  IN SelectMap(sheet.rows, keepRowStaged, Build)

extractRecordsStaged(wb, period) ==
  Flatten([k \in DOMAIN wb |-> extractSheetStaged(wb[k], period)])

\* src/unnamed/part_001 187-223 (the `rec-...` id it assigns is overwritten
\* by commitImport and is left out; itemProfit is column 8, absent here)
keepRowBatch(row) ==
  LET itemIDStr == trim(row.itemNum)
  IN itemIDStr # <<>>
     /\ ~includes(toLowerCase(itemIDStr), <<"t","o","t","a","l">>)

buildRecordBatch(row, marketName, period) ==
  [itemNumber |-> trim(row.itemNum),
   itemName |-> trim(IF row.itemName = <<>> THEN s_UnnamedItem ELSE row.itemName),
   invVariance |-> row.variance, totalRevenue |-> row.revenue,
   soldQty |-> row.soldQty, salePrice |-> row.salePrice,
   shrinkLoss |-> Abs(row.loss), unitCost |-> row.itemCost, itemProfit |-> 0,
   category |-> IF ColdPrefixWide[trim(row.itemNum)] \/ ColdPrefixWide[row.itemName]
                THEN "Cold Food" ELSE "General",
   marketName |-> marketName, period |-> NormalizedPeriodAbbrev[period]]

processRecordsBatch(sheet, period) ==
  LET Build(row) == buildRecordBatch(row, sheet.market, period)
  IN SelectMap(sheet.rows, keepRowBatch, Build)

\* allExtractedRecords of part_001 250-261
extractRecordsBatch(wb, period) ==
  Flatten([k \in DOMAIN wb |-> processRecordsBatch(wb[k], period)])

\* ------------------------------------------------------------------- state
VARIABLES
  variant,              \* which generation of the component is running
  records,              \* the canonical store (useState records)
  selectedMonths,       \* the months filter (a Set)
  selectedMarketFilter, \* "All" or a market name
  activeSegment,        \* "ALL", "SODA_SNACK" or "COLD"
  view,                 \* "report-upload", "dashboard" or "ai-insights"
  importStaging,        \* NoStaging or <<[records, marketNames, period]>>
  activeUploadMonth,    \* NoMonth or the month tile last clicked for upload
  reading,              \* bag of FileReader reads in flight: [file, month]
  isProcessing,
  now,                  \* the latest Date.now() reading
  filteredRecords,      \* the array held by the filteredRecords memo
  storage,              \* NoStorage or <<the four localStorage slots>>
  isQuickAnalyzing,
  deepDiveStatus,       \* "idle", "analyzing" or "ready"
  apiKey,               \* window.process.env.API_KEY is set
  isKeyActive,
  quickAiText,          \* the answer text on display (aiAnalysis in part_001)
  activeChip,           \* "null", "custom" or the prompt of the chip clicked
  deepDiveResult,       \* the stored deep-dive report
  streams,              \* quick queries in flight: <<[sent, fullText, open]>>
  deepInFlight,         \* how many queryMarketAIDeep promises are pending
  steps,                \* history: how many handlers have run
  last,                 \* history: the handler that ran last
  call                  \* the pure function called last: [fn, arg, ret]

vars == <<variant, records, selectedMonths, selectedMarketFilter, activeSegment,
          view, importStaging, activeUploadMonth, reading, isProcessing, now,
          filteredRecords, storage, isQuickAnalyzing, deepDiveStatus, apiKey,
          isKeyActive, quickAiText, activeChip, deepDiveResult, streams,
          deepInFlight, steps, last, call>>

Variants == {"App", "P000", "P001"}
Staged == {"P000", "P001"}
Segments == {"ALL", "SODA_SNACK", "COLD"}
Views == {"report-upload", "dashboard", "ai-insights"}
NoStaging == <<>>
NoMonth == <<>>
NoStorage == <<>>
NoCall == [fn |-> "none", arg |-> <<>>, ret |-> <<>>]
\* the month tiles the user uploads to
UploadMonths == {March, April}

\* ------------------------------------------------------------ derived data
\* populatedMonths memo
populatedMonths(v, recs) ==
  {norm(v, recs[i].period) : i \in DOMAIN recs} \cap Months

\* uniqueMarkets / marketList memo
uniqueMarkets(recs) == {"All"} \cup {recs[i].marketName : i \in DOMAIN recs}

\* a filter whose segment test answers before the months and market tests
passesFilterSegmentFirst(r, months, market, segment) ==
  LET normPeriod == NormalizedPeriod[r.period]
      cold == isCold(r.itemNumber, r.itemName)
  IN IF segment = "COLD" THEN cold
     ELSE IF segment = "SODA_SNACK" THEN ~cold
     ELSE IF months # {} /\ normPeriod \notin months THEN FALSE
     ELSE market = "All" \/ r.marketName = market

\* filteredRecords memo of App.tsx 279-291 and part_000 199-211
passesFilter(r, months, market, segment) ==
  LET normPeriod == NormalizedPeriod[r.period]
      cold == isCold(r.itemNumber, r.itemName)
  IN IF months # {} /\ normPeriod \notin months THEN FALSE
     ELSE IF market # "All" /\ r.marketName # market THEN FALSE
     ELSE IF segment = "COLD" THEN cold
     ELSE IF segment = "SODA_SNACK" THEN ~cold
     ELSE TRUE

\* filteredRecords memo of part_001 147-156
passesFilterGuard(r, months, market, segment) ==
  LET normPeriod == NormalizedPeriodAbbrev[r.period]
  IN IF normPeriod \notin months THEN FALSE
     ELSE IF market # "All" /\ r.marketName # market THEN FALSE
     ELSE IF segment = "COLD" /\ ~isColdFood(r) THEN FALSE
     ELSE IF segment = "SODA_SNACK" /\ isColdFood(r) THEN FALSE
     ELSE TRUE

filterRecords(v, recs, months, market, segment) ==
  LET Pass(r) == IF v = "P001"
                 THEN passesFilterGuard(r, months, market, segment)
                 ELSE passesFilter(r, months, market, segment)
  IN SelectSeq(recs, Pass)

\* the persistence effect (App.tsx 308-315, part_000 229-236); part_001
\* never writes the slots
persist(v, recs, months, market, segment, old) ==
  IF v = "P001" THEN old
  ELSE <<[records |-> recs, months |-> months, market |-> market,
          segment |-> segment]>>

\* ------------------------------------------------------------------ commit
\* `imp-${i}-${Date.now()}`
impId(i, t) == <<"imp", i, t>>

withIds(staged, t) ==
  [i \in DOMAIN staged |-> ("id" :> impId(i - 1, t)) @@ staged[i]]

\* a commit that replaces the whole store
commitUploadNewOnly(prev, extracted, period, t) == withIds(extracted, t)

\* App.tsx 564-567
commitUpload(prev, extracted, period, t) ==
  LET Keep(r) == NormalizedPeriod[r.period] # NormalizedPeriod[period]
  IN SelectSeq(prev, Keep) \o withIds(extracted, t)

\* part_000 501-503 (part_002 404-405 is the same code)
commitStaging(prev, staged, period, t) ==
  LET Keep(r) == NormalizedPeriod[r.period] # period
  IN SelectSeq(prev, Keep) \o withIds(staged, t)

\* a commit that keeps the records of the committed period as well
commitImportRecordsKeepAll(prev, staged, period, t) ==
  prev \o [i \in DOMAIN staged |->
            [withIds(staged, t)[i] EXCEPT !.period = NormalizedPeriodAbbrev[period]]]

\* part_001 225-233
commitImportRecords(prev, staged, period, t) ==
  LET normPeriod == NormalizedPeriodAbbrev[period]
      Keep(r) == NormalizedPeriodAbbrev[r.period] # normPeriod
      newRecords == [i \in DOMAIN staged |->
                       [withIds(staged, t)[i] EXCEPT !.period = normPeriod]]
  IN SelectSeq(prev, Keep) \o newRecords

\* ------------------------------------------------------ summary for the LLM
\* Array.prototype.sort((a, b) => b.shrinkLoss - a.shrinkLoss): stable,
\* descending, and in place - the value is the array as the call leaves it.
RECURSIVE sortByShrinkLoss(_)
sortByShrinkLoss(arr) ==
  IF arr = <<>> THEN <<>>
  ELSE LET front == sortByShrinkLoss(SubSeq(arr, 1, Len(arr) - 1))
           x == arr[Len(arr)]
           ahead == {i \in DOMAIN front : front[i].shrinkLoss >= x.shrinkLoss}
           k == IF ahead = {} THEN 0
                ELSE CHOOSE i \in ahead : \A j \in ahead : j <= i
       IN SubSeq(front, 1, k) \o <<x>> \o SubSeq(front, k + 1, Len(front))

OutlierLimit == 50

\* getAggregates (services/geminiService.ts 32-48): what it returns, and in
\* `input` the caller's array as the call leaves it.
getAggregates(recs) ==
  LET sorted == sortByShrinkLoss(recs)
      top == SubSeq(sorted, 1, IF Len(sorted) < OutlierLimit
                                THEN Len(sorted) ELSE OutlierLimit)
  IN [marketNames |-> distinctInOrder([i \in DOMAIN recs |-> recs[i].marketName]),
      outliers |-> [i \in DOMAIN top |->
                      [item |-> top[i].itemName, itemCode |-> top[i].itemNumber,
                       market |-> top[i].marketName,
                       variance |-> top[i].invVariance,
                       impact |-> top[i].invVariance * top[i].unitCost,
                       isFresh |-> isCold(top[i].itemNumber, top[i].itemName)]],
      input |-> sorted]

\* rec.field || 0
fieldOr0(rec, field) == IF field \in DOMAIN rec THEN rec[field] ELSE 0

\* stats memo (App.tsx 351-381) - the sums; it reads its input only.
RECURSIVE sumOf(_, _)
sumOf(recs, field) ==
  IF recs = <<>> THEN 0
  ELSE fieldOr0(recs[1], field) + sumOf(Tail(recs), field)

\* Number(Math.max(0, accuracy).toFixed(2)) with
\* accuracy = totalRevenue > 0 ? (1 - error / totalRevenue) * 100 : 100,
\* in hundredths of a percent
accuracyOf(error, totalRevenue) ==
  IF totalRevenue > 0
  THEN IF totalRevenue - error <= 0 THEN 0
       ELSE (20000 * (totalRevenue - error) + totalRevenue) \div (2 * totalRevenue)
  ELSE 10000

\* accuracy of the stats memo (App.tsx 357-378)
accuracy(filtered) ==
  accuracyOf(sumOf(filtered, "shrinkLoss") + sumOf(filtered, "overageGain"),
             sumOf(filtered, "totalRevenue"))

stats(filtered) ==
  [result |-> [totalRevenue |-> sumOf(filtered, "totalRevenue"),
               totalShrink |-> sumOf(filtered, "shrinkLoss"),
               totalOverage |-> sumOf(filtered, "overageGain"),
               accuracy |-> IF filtered = <<>> THEN 10000 ELSE accuracy(filtered),
               count |-> Len(filtered)],
   input |-> filtered]

\* stats memo of part_000 268-286: shrink and overage from the sign of
\* invVariance * unitCost, accuracy from the shrink alone
RECURSIVE sumImpact(_, _)
sumImpact(recs, sign) ==
  IF recs = <<>> THEN 0
  ELSE LET impact == recs[1].invVariance * fieldOr0(recs[1], "unitCost")
       IN (IF impact * sign > 0 THEN Abs(impact) ELSE 0)
            + sumImpact(Tail(recs), sign)

statsStaged(filtered) ==
  LET totalRevenue == sumOf(filtered, "totalRevenue")
      totalShrink == sumImpact(filtered, 0 - 1)
      totalOverage == sumImpact(filtered, 1)
  IN [result |-> [totalRevenue |-> totalRevenue,
                  totalShrink |-> totalShrink,
                  totalOverage |-> totalOverage,
                  accuracy |-> IF filtered = <<>> THEN 10000
                               ELSE accuracyOf(totalShrink, totalRevenue),
                  count |-> Len(filtered)],
      input |-> filtered]

\* --------------------------------------------------------------------- Init
Init ==
  /\ variant \in Variants
  /\ records = <<>>
  /\ selectedMonths = {}
  /\ selectedMarketFilter = "All"
  /\ activeSegment = "ALL"
  /\ view = "report-upload"
  /\ importStaging = NoStaging
  /\ activeUploadMonth = NoMonth
  /\ reading = EmptyBag
  /\ isProcessing = FALSE
  /\ now = 0
  /\ filteredRecords = <<>>
  /\ storage = persist(variant, <<>>, {}, "All", "ALL", NoStorage)
  /\ isQuickAnalyzing = FALSE
  /\ deepDiveStatus = "idle"
  /\ apiKey \in (IF variant = "P001" THEN BOOLEAN ELSE {FALSE})
  /\ isKeyActive = FALSE
  /\ quickAiText = <<>>
  /\ activeChip = "null"
  /\ deepDiveResult = <<>>
  /\ streams = <<>>
  /\ deepInFlight = 0
  /\ steps = 0
  /\ last = "init"
  /\ call = NoCall

\* --------------------------------------------------------- common updates
\* The four filter inputs after a handler; the memo is recomputed when one of
\* them changed and the persistence effect then runs.
Render(recs, recsChanged, months, market, segment) ==
  LET changed == \/ recsChanged
                 \/ months # selectedMonths
                 \/ market # selectedMarketFilter
                 \/ segment # activeSegment
  IN /\ records' = recs
     /\ selectedMonths' = months
     /\ selectedMarketFilter' = market
     /\ activeSegment' = segment
     /\ filteredRecords' = IF changed
                           THEN filterRecords(variant, recs, months, market, segment)
                           ELSE filteredRecords
     /\ storage' = IF changed
                   THEN persist(variant, recs, months, market, segment, storage)
                   ELSE storage

Unfiltered == UNCHANGED <<records, selectedMonths, selectedMarketFilter,
                          activeSegment, filteredRecords, storage>>

\* The full-screen spinner (App.tsx 599, part_000 413) and the staging modal
\* (part_000 494, part_001 330) cover the page: no other control is reachable.
Covered ==
  \/ variant \in {"App", "P000"} /\ isProcessing
  \/ importStaging # NoStaging

\* one more handler has run
Step(op) ==
  /\ steps < MaxSteps
  /\ steps' = steps + 1
  /\ last' = op
  /\ UNCHANGED call

\* one more handler has run, and it was not part of the conversation with the
\* language model: setQuickAiText, setDeepDiveResult, setActiveChip and
\* setIsKeyActive(false) are called at App.tsx 427-463 only
Did(op) ==
  /\ Step(op)
  /\ UNCHANGED <<isKeyActive, quickAiText, activeChip, deepDiveResult, streams,
                 deepInFlight>>

\* ------------------------------------------------------------- month grid
\* onClick of a populated month tile (App.tsx 775, part_000 521,
\* part_001 270-277 and 398)
toggleMonth(m) ==
  /\ ~Covered
  /\ m \in populatedMonths(variant, records)
  /\ Render(records, FALSE,
            IF m \in selectedMonths THEN selectedMonths \ {m}
            ELSE selectedMonths \cup {m},
            selectedMarketFilter, activeSegment)
  /\ Did("toggleMonth")
  /\ UNCHANGED <<variant, view, importStaging, activeUploadMonth, reading,
                 isProcessing, now, isQuickAnalyzing, deepDiveStatus, apiKey>>

\* handleFileUpload up to reader.readAsArrayBuffer(file)
startRead(f, targetedMonth) ==
  /\ BagCardinality(reading) < MaxReads
  /\ isProcessing' = TRUE
  /\ reading' = reading (+) SetToBag({[file |-> f, month |-> targetedMonth]})

\* onClick of an empty month tile, then a file picked in the dialog
\* (input onChange: App.tsx 800, part_000 538, part_001 429)
monthGridUpload(m, f) ==
  /\ ~Covered
  /\ m \in UploadMonths \ populatedMonths(variant, records)
  /\ startRead(f, m)
  /\ activeUploadMonth' = IF variant = "P001" THEN NoMonth ELSE m
  /\ Did("startUpload")
  /\ Unfiltered
  /\ UNCHANGED <<variant, view, importStaging, now, isQuickAnalyzing,
                 deepDiveStatus, apiKey>>

\* onClick of an empty month tile, the file dialog dismissed
monthGridCancel(m) ==
  /\ ~Covered
  /\ m \in UploadMonths \ populatedMonths(variant, records)
  /\ activeUploadMonth' = m
  /\ Did("cancelDialog")
  /\ Unfiltered
  /\ UNCHANGED <<variant, view, importStaging, reading, isProcessing, now,
                 isQuickAnalyzing, deepDiveStatus, apiKey>>

\* "Select Source File" of the landing view (part_000 595, part_001 437):
\* the upload goes to the month tile clicked last, if any
selectSourceFile(f) ==
  /\ variant \in Staged
  /\ ~Covered
  /\ view = "report-upload"
  /\ variant = "P001" => ~isProcessing
  /\ startRead(f, activeUploadMonth)
  /\ activeUploadMonth' = IF variant = "P001" THEN NoMonth ELSE activeUploadMonth
  /\ Did("startUpload")
  /\ Unfiltered
  /\ UNCHANGED <<variant, view, importStaging, now, isQuickAnalyzing,
                 deepDiveStatus, apiKey>>

\* ----------------------------------------------------------- reader.onload
targetPeriod(x) == IF x.month = NoMonth THEN Current ELSE x.month

\* App.tsx 471-584: extract, and commit at once
readerOnloadApp(x) ==
  LET period == targetPeriod(x)
      extracted == extractRecords(Workbooks[x.file], period)
  IN /\ variant = "App"
     /\ BagIn(x, reading)
     /\ reading' = reading (-) SetToBag({x})
     /\ isProcessing' = FALSE
     /\ IF extracted = <<>>
        THEN /\ Unfiltered
             /\ Did("uploadNoData")
             /\ UNCHANGED <<view, now>>
        ELSE \E t \in now..MaxClock :
               /\ now' = t
               /\ Render(commitUpload(records, extracted, period, t), TRUE,
                         selectedMonths \cup {NormalizedPeriod[period]},
                         selectedMarketFilter, activeSegment)
               /\ view' = IF view = "report-upload" THEN "dashboard" ELSE view
               /\ Did("uploadCommit")
     /\ UNCHANGED <<variant, importStaging, activeUploadMonth, isQuickAnalyzing,
                    deepDiveStatus, apiKey>>

\* part_000 337-398: extract, and stage
readerOnloadStaged(x) ==
  LET period == targetPeriod(x)
      wb == Workbooks[x.file]
  IN /\ variant = "P000"
     /\ BagIn(x, reading)
     /\ reading' = reading (-) SetToBag({x})
     /\ isProcessing' = FALSE
     /\ importStaging' = <<[records |-> extractRecordsStaged(wb, period),
                           marketNames |-> marketNamesOf(wb), period |-> period]>>
     /\ Did("uploadStaged")
     /\ Unfiltered
     /\ UNCHANGED <<variant, view, activeUploadMonth, now, isQuickAnalyzing,
                    deepDiveStatus, apiKey>>

\* part_001 242-266: with no month tile the period is this calendar month
readerOnloadBatch(x, thisMonth) ==
  LET wb == Workbooks[x.file]
      finalPeriod == IF x.month = NoMonth THEN thisMonth ELSE x.month
  IN /\ variant = "P001"
     /\ BagIn(x, reading)
     /\ x.month # NoMonth => thisMonth = x.month
     /\ reading' = reading (-) SetToBag({x})
     /\ isProcessing' = FALSE
     /\ importStaging' = <<[records |-> extractRecordsBatch(wb, targetPeriod(x)),
                           marketNames |-> marketNamesOf(wb), period |-> finalPeriod]>>
     /\ Did("uploadStaged")
     /\ Unfiltered
     /\ UNCHANGED <<variant, view, activeUploadMonth, now, isQuickAnalyzing,
                    deepDiveStatus, apiKey>>

\* The read of x fails or is aborted: the reader fires 'error' or 'abort',
\* for which handleFileUpload registers no handler (App.tsx 469-585,
\* part_000 335-399, part_001 241-267), so nothing runs.
readerOnerror(x) ==
  /\ BagIn(x, reading)
  /\ reading' = reading (-) SetToBag({x})
  /\ Did("readError")
  /\ Unfiltered
  /\ UNCHANGED <<variant, view, importStaging, activeUploadMonth, isProcessing,
                 now, isQuickAnalyzing, deepDiveStatus, apiKey>>

\* ------------------------------------------------------- staging decisions
\* "Commit To History" (part_000 501-507) and commitImport (part_001 225-237)
commitImport ==
  /\ variant \in Staged
  /\ importStaging # NoStaging
  /\ \E t \in now..MaxClock :
       /\ now' = t
       /\ Render(IF variant = "P001"
                 THEN commitImportRecords(records, importStaging[1].records,
                                          importStaging[1].period, t)
                 ELSE commitStaging(records, importStaging[1].records,
                                    importStaging[1].period, t),
                 TRUE,
                 selectedMonths \cup {norm(variant, importStaging[1].period)},
                 selectedMarketFilter, activeSegment)
  /\ importStaging' = NoStaging
  /\ view' = "dashboard"
  /\ Did("commit")
  /\ UNCHANGED <<variant, activeUploadMonth, reading, isProcessing,
                 isQuickAnalyzing, deepDiveStatus, apiKey>>

\* a discard that also returns to the landing view
discardToLanding ==
  /\ variant \in Staged
  /\ importStaging # NoStaging
  /\ importStaging' = NoStaging
  /\ view' = "report-upload"
  /\ Did("discard")
  /\ Unfiltered
  /\ UNCHANGED <<variant, activeUploadMonth, reading, isProcessing, now,
                 isQuickAnalyzing, deepDiveStatus, apiKey>>

\* "Discard" (part_000 500) and "Cancel" (part_001 346)
discard ==
  /\ variant \in Staged
  /\ importStaging # NoStaging
  /\ importStaging' = NoStaging
  /\ Did("discard")
  /\ Unfiltered
  /\ UNCHANGED <<variant, view, activeUploadMonth, reading, isProcessing, now,
                 isQuickAnalyzing, deepDiveStatus, apiKey>>

\* the period select of the confirm dialog (part_001 338)
stagingPeriodChange(m) ==
  /\ variant = "P001"
  /\ importStaging # NoStaging
  /\ importStaging' = <<[importStaging[1] EXCEPT !.period = m]>>
  /\ Did("stagingPeriod")
  /\ Unfiltered
  /\ UNCHANGED <<variant, view, activeUploadMonth, reading, isProcessing, now,
                 isQuickAnalyzing, deepDiveStatus, apiKey>>

\* ------------------------------------------------------------ destruction
\* a purge that drops the selection before asking
purgeLedgerEager(accepted) ==
  /\ variant \in {"App", "P000"}
  /\ ~Covered
  /\ Render(IF accepted THEN <<>> ELSE records, accepted, {},
            selectedMarketFilter, activeSegment)
  /\ view' = IF accepted THEN "report-upload" ELSE view
  /\ Did(IF accepted THEN "purge" ELSE "purgeDeclined")
  /\ UNCHANGED <<variant, importStaging, activeUploadMonth, reading,
                 isProcessing, now, isQuickAnalyzing, deepDiveStatus, apiKey>>

\* purgeLedger (App.tsx 317-324, part_000 238-245); `accepted` is the answer
\* to window.confirm.  localStorage.clear() is followed by the persistence
\* effect of the render it causes.
purgeLedger(accepted) ==
  /\ variant \in {"App", "P000"}
  /\ ~Covered
  /\ IF accepted
     THEN /\ records' = <<>>
          /\ selectedMonths' = {}
          /\ filteredRecords' = filterRecords(variant, <<>>, {},
                                              selectedMarketFilter, activeSegment)
          /\ storage' = persist(variant, <<>>, {}, selectedMarketFilter,
                                activeSegment, NoStorage)
          /\ view' = "report-upload"
          /\ UNCHANGED <<selectedMarketFilter, activeSegment>>
     ELSE Unfiltered /\ UNCHANGED view
  /\ Did(IF accepted THEN "purge" ELSE "purgeDeclined")
  /\ UNCHANGED <<variant, importStaging, activeUploadMonth, reading,
                 isProcessing, now, isQuickAnalyzing, deepDiveStatus, apiKey>>

\* removeMonthData (part_001 299-304), the x of a populated month tile
removeMonthData(month, accepted) ==
  LET Keep(r) == NormalizedPeriodAbbrev[r.period] # month
  IN /\ variant = "P001"
     /\ ~Covered
     /\ month \in populatedMonths(variant, records)
     /\ IF accepted
        THEN Render(SelectSeq(records, Keep), TRUE, selectedMonths \ {month},
                    selectedMarketFilter, activeSegment)
        ELSE Unfiltered
     /\ Did(IF accepted THEN "removeMonth" ELSE "removeMonthDeclined")
     /\ UNCHANGED <<variant, view, importStaging, activeUploadMonth, reading,
                    isProcessing, now, isQuickAnalyzing, deepDiveStatus, apiKey>>

\* ---------------------------------------------------------- filters, views
\* the segment buttons and the market select are rendered with data on the
\* dashboard (and, in App.tsx 808, on the AI view)
FiltersShown ==
  /\ ~Covered
  /\ CASE variant = "App" -> records # <<>> /\ view \in {"dashboard", "ai-insights"}
       [] variant = "P000" -> records # <<>> /\ view = "dashboard"
       [] OTHER -> ~isProcessing /\ view # "report-upload"

setActiveSegment(seg) ==
  /\ FiltersShown
  /\ Render(records, FALSE, selectedMonths, selectedMarketFilter, seg)
  /\ Did("setSegment")
  /\ UNCHANGED <<variant, view, importStaging, activeUploadMonth, reading,
                 isProcessing, now, isQuickAnalyzing, deepDiveStatus, apiKey>>

setSelectedMarketFilter(market) ==
  /\ FiltersShown
  /\ market \in uniqueMarkets(records)
  /\ Render(records, FALSE, selectedMonths, market, activeSegment)
  /\ Did("setMarket")
  /\ UNCHANGED <<variant, view, importStaging, activeUploadMonth, reading,
                 isProcessing, now, isQuickAnalyzing, deepDiveStatus, apiKey>>

\* the three navigation buttons; two are disabled while the store is empty
setView(v) ==
  /\ ~Covered
  /\ v = "report-upload" \/ records # <<>>
  /\ view' = v
  /\ Did("setView")
  /\ Unfiltered
  /\ UNCHANGED <<variant, importStaging, activeUploadMonth, reading,
                 isProcessing, now, isQuickAnalyzing, deepDiveStatus, apiKey>>

\* ------------------------------------------------------- language-model use
\* initConfig (App.tsx 160-197, part_000 80-117): the worker's key arrives.
\* part_001 reads a build-time process.env.API_KEY instead.
initConfig ==
  /\ variant \in {"App", "P000"}
  /\ ~apiKey
  /\ apiKey' = TRUE
  /\ isKeyActive' = TRUE
  /\ Step("initConfig")
  /\ Unfiltered
  /\ UNCHANGED <<variant, view, importStaging, activeUploadMonth, reading,
                 isProcessing, now, isQuickAnalyzing, deepDiveStatus,
                 quickAiText, activeChip, deepDiveResult, streams,
                 deepInFlight>>

\* Texts are sequences of pieces, concatenated by \o. The fixed texts of
\* geminiService.ts 121-126 and 179-181, App.tsx 435 and App.tsx 1077.
reply ==
  [sentinel |-> <<"AUTH_REQUIRED">>,
   offline |-> <<"DIAGNOSTIC ENGINE OFFLINE. Check System Integrity.">>,
   failed |-> <<"Diagnosis failed. Error: ">>,
   noReport |-> <<"Diagnostic report generation failed.">>,
   noConnection |-> <<"Forensic connection failed: ">>,
   auditError |-> <<"### Audit Error">>]

\* chunk.text of one chunk of the stream, response.text of a report: a piece
\* of ordinary text, or nothing
Chunks == {<<>>, <<"a">>, <<"b">>}

\* an onChunk that displays whatever it is given
onChunkRaw(text) ==
  /\ quickAiText' = text
  /\ UNCHANGED isKeyActive

\* the onChunk callback (App.tsx 432-438); part_001 294 shows what it is given
onChunk(text) ==
  IF variant # "P001" /\ text = reply.sentinel
  THEN /\ isKeyActive' = FALSE
       /\ quickAiText' = reply.offline
  ELSE /\ quickAiText' = text
       /\ UNCHANGED isKeyActive

\* handleRunQuickAI without the isQuickAnalyzing test of its first line
handleRunQuickAIUnguarded(customPrompt) ==
  /\ variant \in {"App", "P000"}
  /\ ~Covered
  /\ view = "ai-insights"
  /\ records # <<>>
  /\ isQuickAnalyzing' = TRUE
  /\ activeChip' = IF customPrompt = "" THEN "custom" ELSE customPrompt
  /\ view' = "ai-insights"
  /\ IF ~apiKey
     THEN /\ onChunk(reply.sentinel)
          /\ streams' = Append(streams, [sent |-> <<>>, fullText |-> <<>>, open |-> FALSE])
          /\ UNCHANGED <<records, filteredRecords>>
     ELSE /\ quickAiText' = <<>>
          /\ streams' = Append(streams, [sent |-> <<>>, fullText |-> <<>>, open |-> TRUE])
          /\ UNCHANGED isKeyActive
          /\ IF variant = "App"
             THEN /\ filteredRecords' = getAggregates(filteredRecords).input
                  /\ UNCHANGED records
             ELSE /\ records' = getAggregates(records).input
                  /\ UNCHANGED filteredRecords
  /\ Step(IF apiKey THEN "quickAI" ELSE "quickAuth")
  /\ UNCHANGED <<variant, selectedMonths, selectedMarketFilter, activeSegment,
                 storage, importStaging, activeUploadMonth, reading,
                 isProcessing, now, deepDiveStatus, apiKey, deepDiveResult,
                 deepInFlight>>

\* handleRunQuickAI (App.tsx 423-444, part_000 289-310) with a non-blank
\* question, up to the first await inside queryMarketAIQuick: getAI() throws
\* without a key and the catch block reports the sentinel at once, otherwise
\* getAggregates sorts the array it is handed and the request is issued.
\* App.tsx hands it the filteredRecords memo, part_000 the records state.
\* customPrompt is "" when the question was typed.
handleRunQuickAI(customPrompt) ==
  /\ variant \in {"App", "P000"}
  /\ ~Covered
  /\ view = "ai-insights"
  /\ records # <<>>
  /\ ~isQuickAnalyzing
  /\ isQuickAnalyzing' = TRUE
  /\ activeChip' = IF customPrompt = "" THEN "custom" ELSE customPrompt
  /\ view' = "ai-insights"
  /\ IF ~apiKey
     THEN /\ onChunk(reply.sentinel)
          /\ streams' = Append(streams, [sent |-> <<>>, fullText |-> <<>>, open |-> FALSE])
          /\ UNCHANGED <<records, filteredRecords>>
     ELSE /\ quickAiText' = <<>>
          /\ streams' = Append(streams, [sent |-> <<>>, fullText |-> <<>>, open |-> TRUE])
          /\ UNCHANGED isKeyActive
          /\ IF variant = "App"
             THEN /\ filteredRecords' = getAggregates(filteredRecords).input
                  /\ UNCHANGED records
             ELSE /\ records' = getAggregates(records).input
                  /\ UNCHANGED filteredRecords
  /\ Step(IF apiKey THEN "quickAI" ELSE "quickAuth")
  /\ UNCHANGED <<variant, selectedMonths, selectedMarketFilter, activeSegment,
                 storage, importStaging, activeUploadMonth, reading,
                 isProcessing, now, deepDiveStatus, apiKey, deepDiveResult,
                 deepInFlight>>

\* handleRunAI (part_001 279-297), up to the first await inside queryMarketAI
\* (App.tsx 1016-1040), which sorts its argument. new GoogleGenAI (App.tsx
\* 1017) stands outside the try block: where the library throws for a missing
\* key (`thrown`), the promise rejects and part_001 296 is never reached.
handleRunAI(thrown) ==
  /\ variant = "P001"
  /\ ~Covered
  /\ ~isProcessing
  /\ view = "ai-insights"
  /\ filteredRecords # <<>>
  /\ ~isQuickAnalyzing
  /\ thrown => ~apiKey
  /\ isQuickAnalyzing' = TRUE
  /\ quickAiText' = <<>>
  /\ view' = "ai-insights"
  /\ IF thrown
     THEN UNCHANGED <<filteredRecords, streams>>
     ELSE /\ filteredRecords' = sortByShrinkLoss(filteredRecords)
          /\ streams' = Append(streams, [sent |-> <<>>, fullText |-> <<>>, open |-> TRUE])
  /\ Step("quickAI")
  /\ UNCHANGED <<variant, records, selectedMonths, selectedMarketFilter,
                 activeSegment, storage, importStaging, activeUploadMonth,
                 reading, isProcessing, now, deepDiveStatus, apiKey,
                 isKeyActive, activeChip, deepDiveResult, deepInFlight>>

\* a chunk arrives and is delivered by itself
quickChunkAlone(i, chunk) ==
  LET fullText == streams[i].fullText \o chunk
  IN /\ streams[i].open
     /\ apiKey
     /\ streams' = [streams EXCEPT ![i] = [sent |-> Append(@.sent, chunk),
                                           fullText |-> fullText,
                                           open |-> TRUE]]
     /\ IF chunk # <<>>
        THEN onChunk(chunk)
        ELSE UNCHANGED <<quickAiText, isKeyActive>>
     /\ Step("chunk")
     /\ Unfiltered
     /\ UNCHANGED <<variant, view, importStaging, activeUploadMonth, reading,
                    isProcessing, now, isQuickAnalyzing, deepDiveStatus, apiKey,
                    activeChip, deepDiveResult, deepInFlight>>

\* one chunk of stream i arrives (geminiService.ts 113-119, App.tsx 1068-1075)
quickChunk(i, chunk) ==
  LET fullText == streams[i].fullText \o chunk
  IN /\ streams[i].open
     /\ apiKey
     /\ streams' = [streams EXCEPT ![i] = [sent |-> Append(@.sent, chunk),
                                           fullText |-> fullText,
                                           open |-> TRUE]]
     /\ IF chunk # <<>>
        THEN onChunk(fullText)
        ELSE UNCHANGED <<quickAiText, isKeyActive>>
     /\ Step("chunk")
     /\ Unfiltered
     /\ UNCHANGED <<variant, view, importStaging, activeUploadMonth, reading,
                    isProcessing, now, isQuickAnalyzing, deepDiveStatus, apiKey,
                    activeChip, deepDiveResult, deepInFlight>>

\* stream i is over: it ends ("end"), or the request or the stream fails with
\* an authorization error ("auth") or another one ("error") and the catch
\* block reports it (geminiService.ts 120-127, App.tsx 1076-1078); then the
\* finally block (App.tsx 440-443) / the line after the await (part_001 296)
quickAIDone(i, outcome) ==
  /\ streams[i].open \/ outcome = "end"
  /\ streams' = SubSeq(streams, 1, i - 1) \o SubSeq(streams, i + 1, Len(streams))
  /\ IF outcome = "end"
     THEN UNCHANGED <<quickAiText, isKeyActive>>
     ELSE onChunk(IF variant = "P001" THEN reply.auditError
                  ELSE IF outcome = "auth" THEN reply.sentinel
                  ELSE reply.failed)
  /\ isQuickAnalyzing' = FALSE
  /\ activeChip' = "null"
  /\ Step(IF outcome = "auth" /\ variant # "P001" THEN "quickAuth"
          ELSE "quickAIDone")
  /\ Unfiltered
  /\ UNCHANGED <<variant, view, importStaging, activeUploadMonth, reading,
                 isProcessing, now, deepDiveStatus, apiKey, deepDiveResult,
                 deepInFlight>>

\* startDeepDive without the 'analyzing' test of App.tsx 453
startDeepDiveAgain ==
  /\ variant \in {"App", "P000"}
  /\ ~Covered
  /\ view = "ai-insights"
  /\ IF deepDiveStatus = "ready"
     THEN /\ quickAiText' = deepDiveResult
          /\ deepDiveStatus' = "idle"
          /\ view' = "ai-insights"
          /\ UNCHANGED <<filteredRecords, deepInFlight>>
     ELSE /\ filteredRecords # <<>>
          /\ deepDiveStatus' = "analyzing"
          /\ deepInFlight' = deepInFlight + 1
          /\ filteredRecords' = IF apiKey
                                THEN getAggregates(filteredRecords).input
                                ELSE filteredRecords
          /\ UNCHANGED <<view, quickAiText>>
  /\ Step(IF deepDiveStatus = "ready" THEN "viewDeepDive" ELSE "deepDive")
  /\ UNCHANGED <<variant, records, selectedMonths, selectedMarketFilter,
                 activeSegment, storage, importStaging, activeUploadMonth,
                 reading, isProcessing, now, isQuickAnalyzing, apiKey,
                 isKeyActive, activeChip, deepDiveResult, streams>>

\* startDeepDive without the setQuickAiText of App.tsx 448
startDeepDiveKeepText ==
  /\ variant \in {"App", "P000"}
  /\ ~Covered
  /\ view = "ai-insights"
  /\ IF deepDiveStatus = "ready"
     THEN /\ UNCHANGED quickAiText
          /\ deepDiveStatus' = "idle"
          /\ view' = "ai-insights"
          /\ UNCHANGED <<filteredRecords, deepInFlight>>
     ELSE /\ deepDiveStatus # "analyzing"
          /\ filteredRecords # <<>>
          /\ deepDiveStatus' = "analyzing"
          /\ deepInFlight' = deepInFlight + 1
          /\ filteredRecords' = IF apiKey
                                THEN getAggregates(filteredRecords).input
                                ELSE filteredRecords
          /\ UNCHANGED <<view, quickAiText>>
  /\ Step(IF deepDiveStatus = "ready" THEN "viewDeepDive" ELSE "deepDive")
  /\ UNCHANGED <<variant, records, selectedMonths, selectedMarketFilter,
                 activeSegment, storage, importStaging, activeUploadMonth,
                 reading, isProcessing, now, isQuickAnalyzing, apiKey,
                 isKeyActive, activeChip, deepDiveResult, streams>>

\* startDeepDive (App.tsx 446-464, part_000 312-330), when it does anything
startDeepDive ==
  /\ variant \in {"App", "P000"}
  /\ ~Covered
  /\ view = "ai-insights"
  /\ IF deepDiveStatus = "ready"
     THEN /\ quickAiText' = deepDiveResult
          /\ deepDiveStatus' = "idle"
          /\ view' = "ai-insights"
          /\ UNCHANGED <<filteredRecords, deepInFlight>>
     ELSE /\ deepDiveStatus # "analyzing"
          /\ filteredRecords # <<>>
          /\ deepDiveStatus' = "analyzing"
          /\ deepInFlight' = deepInFlight + 1
          /\ filteredRecords' = IF apiKey
                                THEN getAggregates(filteredRecords).input
                                ELSE filteredRecords
          /\ UNCHANGED <<view, quickAiText>>
  /\ Step(IF deepDiveStatus = "ready" THEN "viewDeepDive" ELSE "deepDive")
  /\ UNCHANGED <<variant, records, selectedMonths, selectedMarketFilter,
                 activeSegment, storage, importStaging, activeUploadMonth,
                 reading, isProcessing, now, isQuickAnalyzing, apiKey,
                 isKeyActive, activeChip, deepDiveResult, streams>>

\* the promise of queryMarketAIDeep settles (geminiService.ts 130-182: it
\* never rejects) with a report ("text", response.text being `report`), the
\* sentinel ("auth") or a failure text ("error"); then App.tsx 455-462
deepDiveDone(outcome, report) ==
  LET result == IF outcome = "auth" THEN reply.sentinel
                ELSE IF outcome = "error" THEN reply.noConnection
                ELSE IF report = <<>> THEN reply.noReport
                ELSE report
  IN /\ deepInFlight > 0
     /\ ~apiKey => outcome = "auth"
     /\ deepInFlight' = deepInFlight - 1
     /\ IF result = reply.sentinel
        THEN /\ isKeyActive' = FALSE
             /\ deepDiveStatus' = "idle"
             /\ UNCHANGED deepDiveResult
        ELSE /\ deepDiveResult' = result
             /\ deepDiveStatus' = "ready"
             /\ UNCHANGED isKeyActive
     /\ Step(IF outcome = "auth" THEN "deepAuth" ELSE "deepDiveDone")
     /\ Unfiltered
     /\ UNCHANGED <<variant, view, importStaging, activeUploadMonth, reading,
                    isProcessing, now, isQuickAnalyzing, apiKey, quickAiText,
                    activeChip, streams>>

\* the handlers of the conversation with the language model; the question
\* is typed ("") or the prompt of a chip of the suggestions panel (App.tsx 953)
Converse ==
  \/ initConfig
  \/ \E customPrompt \in {"", "Which items leak most?"} :
       handleRunQuickAI(customPrompt)
  \/ \E thrown \in BOOLEAN : handleRunAI(thrown)
  \/ \E i \in DOMAIN streams, chunk \in Chunks : quickChunk(i, chunk)
  \/ \E i \in DOMAIN streams, outcome \in {"end", "auth", "error"} :
       quickAIDone(i, outcome)
  \/ startDeepDive
  \/ \E outcome \in {"text", "auth", "error"}, report \in Chunks :
       deepDiveDone(outcome, report)

\* --------------------------------------------------------------------- Next
Next ==
  \/ \E m \in populatedMonths(variant, records) : toggleMonth(m)
  \/ \E m \in UploadMonths, f \in Files : monthGridUpload(m, f)
  \/ \E m \in UploadMonths : monthGridCancel(m)
  \/ \E f \in Files : selectSourceFile(f)
  \/ \E x \in BagToSet(reading) : readerOnloadApp(x)
  \/ \E x \in BagToSet(reading) : readerOnloadStaged(x)
  \/ \E x \in BagToSet(reading), m \in UploadMonths : readerOnloadBatch(x, m)
  \/ \E x \in BagToSet(reading) : readerOnerror(x)
  \/ commitImport
  \/ discard
  \/ \E m \in UploadMonths : stagingPeriodChange(m)
  \/ \E accepted \in BOOLEAN : purgeLedger(accepted)
  \/ \E m \in populatedMonths(variant, records), accepted \in BOOLEAN :
       removeMonthData(m, accepted)
  \/ \E seg \in Segments : setActiveSegment(seg)
  \/ \E market \in uniqueMarkets(records) : setSelectedMarketFilter(market)
  \/ \E v \in Views : setView(v)
  \/ Converse

Spec == Init /\ [][Next]_vars

\* ------------------------------------------------- the conversation alone
\* The insights view opened on a ledger of one report: file f was uploaded to
\* the March tile and committed at time 0, then the view was changed. The
\* worker's key has arrived or not (App.tsx 160-197); part_001 is built with
\* a key or without one.
InitAI ==
  /\ variant \in Variants
  /\ \E f \in Files :
       records =
         IF variant = "App"
         THEN commitUpload(<<>>, extractRecords(Workbooks[f], March), March, 0)
         ELSE IF variant = "P000"
         THEN commitStaging(<<>>, extractRecordsStaged(Workbooks[f], March),
                            March, 0)
         ELSE commitImportRecords(<<>>, extractRecordsBatch(Workbooks[f], March),
                                  March, 0)
  /\ records # <<>>
  /\ selectedMonths = {norm(variant, March)}
  /\ selectedMarketFilter = "All"
  /\ activeSegment = "ALL"
  /\ view = "ai-insights"
  /\ importStaging = NoStaging
  /\ activeUploadMonth = IF variant = "P001" THEN NoMonth ELSE March
  /\ reading = EmptyBag
  /\ isProcessing = FALSE
  /\ now = 0
  /\ filteredRecords = filterRecords(variant, records, selectedMonths, "All", "ALL")
  /\ storage = persist(variant, records, selectedMonths, "All", "ALL",
                       persist(variant, <<>>, {}, "All", "ALL", NoStorage))
  /\ isQuickAnalyzing = FALSE
  /\ deepDiveStatus = "idle"
  /\ apiKey \in BOOLEAN
  /\ isKeyActive = (variant # "P001" /\ apiKey)
  /\ quickAiText = <<>>
  /\ activeChip = "null"
  /\ deepDiveResult = <<>>
  /\ streams = <<>>
  /\ deepInFlight = 0
  /\ steps = 0
  /\ last = "setView"
  /\ call = NoCall

SpecAI == InitAI /\ [][Converse]_vars

\* ============================================= the pure functions, called
\* The component's state, which no pure function touches
component == <<variant, records, selectedMonths, selectedMarketFilter,
               activeSegment, view, importStaging, activeUploadMonth, reading,
               isProcessing, now, filteredRecords, storage, isQuickAnalyzing,
               deepDiveStatus, apiKey, isKeyActive, quickAiText, activeChip,
               deepDiveResult, streams, deepInFlight, steps, last>>

\* one evaluation: the result depends on the argument alone
Called(fn, arg, ret) ==
  /\ call = NoCall
  /\ call' = [fn |-> fn, arg |-> arg, ret |-> ret]
  /\ UNCHANGED component

SeqsUpTo2(S) == {<<>>} \cup {<<a>> : a \in S} \cup {<<a, b>> : a \in S, b \in S}

\* the stats memo on the records of up to two data rows
StatRows ==
  {Row(s_200, s_FBar, var, rev, 0, 0, cost, 0) :
     var \in {0 - 2, 0, 1}, rev \in {0, 4, 10}, cost \in {0 - 2, 0, 3}}

StatRecords(v) ==
  IF v = "App"
  THEN {buildRecord(row, "A", March) : row \in StatRows}
  ELSE {buildRecordStaged(row, "A", March) : row \in {r \in StatRows : keepRowStaged(r)}}

statsOf(v, filtered) ==
  IF v = "App" THEN stats(filtered) ELSE statsStaged(filtered)

callStats(filtered) ==
  /\ variant \in {"App", "P000"}
  /\ Called("stats", filtered, statsOf(variant, filtered).result)

\* ---- the useState initialisers (App.tsx 254-270, part_000 174-190,
\* part_001 55-80). A slot of localStorage is missing, or holds text that
\* JSON.parse throws on, or text that parses to a value of some type.
\* A text slot is the string read, "" when getItem gave null.
Slot(t, v) == [t |-> t, v |-> v]

\* saved ? JSON.parse(saved) : [], [] when it throws
loadRecords(slot) ==
  IF slot.t \in {"missing", "garbage"} THEN Slot("array", <<>>) ELSE slot

\* new Set(parsed): the elements of an array, the characters of a string,
\* nothing for null; any other value is not iterable and the catch answers
setOfIterable(parsed) ==
  CASE parsed.t = "array" -> {parsed.v[i] : i \in DOMAIN parsed.v}
    [] parsed.t = "string" -> {<<parsed.v[i]>> : i \in DOMAIN parsed.v}
    [] OTHER -> {}

loadMonths(v, slot) ==
  IF slot.t \in {"missing", "garbage"} THEN {}
  ELSE IF v = "P001" /\ slot.t # "array" THEN {}
  ELSE setOfIterable(slot)

\* localStorage.getItem(key) || fallback
loadText(slot, fallback) == IF slot = "" THEN fallback ELSE slot

\* the first render: uniqueMarkets calls records.forEach, filteredRecords
\* calls records.filter
firstRender(v, recs, months, market, segment) ==
  IF recs.t # "array" THEN [outcome |-> "throws", filtered |-> <<>>]
  ELSE [outcome |-> "ok",
        filtered |-> filterRecords(v, recs.v, months, market, segment)]

load(v, slots) ==
  LET recs == loadRecords(slots.records)
      months == loadMonths(v, slots.months)
      market == loadText(slots.market, "All")
      segment == loadText(slots.segment, "ALL")
  IN [records |-> recs, selectedMonths |-> months,
      selectedMarketFilter |-> market, activeSegment |-> segment,
      firstRender |-> firstRender(v, recs, months, market, segment)]

SavedRecords(v) ==
  CASE v = "App" -> commitUpload(<<>>, extractRecords(Workbooks[1], March), March, 0)
    [] v = "P000" -> commitStaging(<<>>, extractRecordsStaged(Workbooks[1], March), March, 0)
    [] OTHER -> commitImportRecords(<<>>, extractRecordsBatch(Workbooks[1], March), March, 0)

RecordSlots(v) ==
  {Slot("missing", <<>>), Slot("garbage", <<>>), Slot("null", <<>>), Slot("object", <<>>), Slot("number", <<>>),
   Slot("array", <<>>), Slot("array", SavedRecords(v))}
MonthSlots ==
  {Slot("missing", <<>>), Slot("garbage", <<>>), Slot("null", <<>>), Slot("object", <<>>), Slot("number", <<>>),
   Slot("string", March), Slot("array", <<>>), Slot("array", <<March>>)}
MarketSlots == {"", "All", "A", "Z"}
SegmentSlots == {"", "ALL", "SODA_SNACK", "COLD", "HOT"}

callLoad(slots) == Called("load", slots, load(variant, slots))

\* ---- header detection (App.tsx 489-519, part_000 351-372). A sheet is
\* the sequence of its rows, a row the sequence of its cells' texts.
RECURSIVE join(_)
join(row) ==
  IF row = <<>> THEN <<>>
  ELSE IF Len(row) = 1 THEN row[1]
  ELSE row[1] \o <<"|">> \o join(Tail(row))

includesAny(s, keys) == \E k \in keys : includes(s, k)


\* the keywords of the detector
keyword ==
  [item |-> <<"i", "t", "e", "m">>,
   description |-> <<"d", "e", "s", "c", "r", "i", "p", "t", "i", "o", "n">>,
   number |-> <<"n", "u", "m", "b", "e", "r">>,
   code |-> <<"c", "o", "d", "e">>,
   variance |-> <<"v", "a", "r", "i", "a", "n", "c", "e">>,
   revenue |-> <<"r", "e", "v", "e", "n", "u", "e">>,
   qty |-> <<"q", "t", "y">>,
   diff |-> <<"d", "i", "f", "f">>,
   cost |-> <<"c", "o", "s", "t">>,
   count |-> <<"c", "o", "u", "n", "t">>]

ScanWindow == 50
MinSheetRows == 5

hasItemKey(rowStr) == includesAny(rowStr, {keyword.item, keyword.description, keyword.number, keyword.code})
hasValueKey(rowStr) == includesAny(rowStr, {keyword.variance, keyword.revenue, keyword.qty, keyword.diff})

isHeaderRow(v, row) ==
  LET rowStr == toLowerCase(join(row))
  IN IF v = "App" THEN hasItemKey(rowStr) /\ hasValueKey(rowStr)
     ELSE \/ includes(rowStr, keyword.variance)
          \/ includes(rowStr, keyword.revenue)
          \/ v = "P002" /\ includes(rowStr, keyword.cost)

DefaultColMap ==
  [itemNum |-> 0, itemName |-> 1, variance |-> 2, revenue |-> 3,
   soldQty |-> 4, salePrice |-> 5, itemCost |-> 7]

\* the else-if chain of row.forEach((cell, idx) => ...): App.tsx 504-515,
\* part_000 360-367 and, matching whole labels, part_002 334-345
mapCell(v, colMap, cell, idx) ==
  LET s == trim(toLowerCase(cell))
  IN IF v = "P002"
       THEN IF s = <<>> THEN colMap
            ELSE IF s \in {<<"i", "t", "e", "m", " ", "c", "o", "d", "e">>, <<"i", "t", "e", "m", " ", "n", "u", "m", "b", "e", "r">>, <<"i", "t", "e", "m", " ", "n", "o">>}
              THEN [colMap EXCEPT !.itemNum = idx]
            ELSE IF s \in {<<"i", "t", "e", "m">>, <<"i", "t", "e", "m", " ", "n", "a", "m", "e">>, <<"d", "e", "s", "c", "r", "i", "p", "t", "i", "o", "n">>}
              THEN [colMap EXCEPT !.itemName = idx]
            ELSE IF s \in {<<"i", "n", "v", " ", "v", "a", "r", "i", "a", "n", "c", "e">>, <<"i", "n", "v", "e", "n", "t", "o", "r", "y", " ", "v", "a", "r", "i", "a", "n", "c", "e">>}
              THEN [colMap EXCEPT !.variance = idx]
            ELSE IF s \in {<<"t", "o", "t", "a", "l", " ", "r", "e", "v", "e", "n", "u", "e">>, <<"r", "e", "v", "e", "n", "u", "e">>, <<"s", "a", "l", "e", "s">>}
              THEN [colMap EXCEPT !.revenue = idx]
            ELSE IF s \in {<<"s", "o", "l", "d", " ", "q", "t", "y">>, <<"q", "t", "y", " ", "s", "o", "l", "d">>, <<"u", "n", "i", "t", "s", " ", "s", "o", "l", "d">>}
              THEN [colMap EXCEPT !.soldQty = idx]
            ELSE IF s \in {<<"s", "a", "l", "e", " ", "p", "r", "i", "c", "e">>, <<"p", "r", "i", "c", "e">>}
              THEN [colMap EXCEPT !.salePrice = idx]
            ELSE IF s \in {<<"i", "t", "e", "m", " ", "c", "o", "s", "t">>, <<"u", "n", "i", "t", " ", "c", "o", "s", "t">>, <<"c", "o", "s", "t">>}
              THEN [colMap EXCEPT !.itemCost = idx]
            ELSE IF includes(s, keyword.variance) /\ colMap.variance = 0
              THEN [colMap EXCEPT !.variance = idx]
            ELSE colMap
     ELSE IF includes(s, keyword.number) \/ includes(s, keyword.code)
       THEN [colMap EXCEPT !.itemNum = idx]
     ELSE IF s = keyword.item \/ s = keyword.description
       THEN [colMap EXCEPT !.itemName = idx]
     ELSE IF includes(s, keyword.variance) \/ (v = "App" /\ includes(s, keyword.diff))
       THEN IF v # "App" THEN [colMap EXCEPT !.variance = idx]
            ELSE IF includes(s, keyword.qty) \/ includes(s, keyword.count)
              THEN [colMap EXCEPT !.variance = idx]
            ELSE IF ~includes(s, keyword.cost) /\ ~includes(s, <<"$">>)
              THEN [colMap EXCEPT !.variance = idx]
            ELSE colMap
     ELSE IF includes(s, keyword.revenue) THEN [colMap EXCEPT !.revenue = idx]
     ELSE IF includes(s, keyword.cost) THEN [colMap EXCEPT !.itemCost = idx]
     ELSE IF includesAny(s, {<<"s", "o", "l", "d">>, keyword.qty, <<"q", "u", "a", "n", "t", "i", "t", "y">>, <<"s", "a", "l", "e", "s">>})
       THEN [colMap EXCEPT !.soldQty = idx]
     ELSE IF includesAny(s, {<<"p", "r", "i", "c", "e">>, <<"r", "e", "t", "a", "i", "l">>, <<"s", "r", "p">>, <<"s", "a", "l", "e">>})
       THEN [colMap EXCEPT !.salePrice = idx]
     ELSE colMap

RECURSIVE mapCells(_, _, _, _)
mapCells(v, colMap, row, idx) ==
  IF idx >= Len(row) THEN colMap
  ELSE mapCells(v, mapCell(v, colMap, row[idx + 1], idx), row, idx + 1)

\* headerRowIndex (-1 when the sheet is skipped or no row qualifies) and colMap
detectHeader(v, jsonData) ==
  LET scanned == {i \in 0..(Len(jsonData) - 1) :
                    i < ScanWindow /\ isHeaderRow(v, jsonData[i + 1])}
      first == CHOOSE i \in scanned : \A j \in scanned : i <= j
  IN IF Len(jsonData) < MinSheetRows \/ scanned = {}
     THEN [headerRowIndex |-> 0 - 1, colMap |-> DefaultColMap]
     ELSE [headerRowIndex |-> first,
           colMap |-> mapCells(v, DefaultColMap, jsonData[first + 1], 0)]


\* rows of the sheets scanned
sampleRow ==
  [meta |-> <<<<"M", "a", "r", "k", "e", "t", " ", "A">>>>,
   title |-> <<<<"V", "a", "r", "i", "a", "n", "c", "e", " ", "R", "e", "p", "o", "r", "t">>>>,
   items |-> <<<<"I", "t", "e", "m">>, <<"D", "e", "s", "c", "r", "i", "p", "t", "i", "o", "n">>>>,
   header |-> <<<<"I", "t", "e", "m", " ", "N", "u", "m", "b", "e", "r">>, <<"D", "e", "s", "c", "r", "i", "p", "t", "i", "o", "n">>, <<"I", "n", "v", " ", "V", "a", "r", "i", "a", "n", "c", "e">>, <<"R", "e", "v", "e", "n", "u", "e">>>>,
   header2 |-> <<<<"C", "o", "d", "e">>, <<"I", "t", "e", "m">>, <<"C", "o", "s", "t", " ", "V", "a", "r", "i", "a", "n", "c", "e">>, <<"Q", "t", "y", " ", "D", "i", "f", "f">>>>,
   swapped |-> <<<<"R", "e", "v", "e", "n", "u", "e">>, <<"I", "t", "e", "m", " ", "C", "o", "d", "e">>>>,
   data |-> <<s_B1, s_Chips, <<"1">>, <<"0">>>>]

RECURSIVE Pad(_, _)
Pad(n, row) == IF n = 0 THEN <<>> ELSE <<row>> \o Pad(n - 1, row)

RawSheets ==
  {Pad(n, sampleRow.meta) \o rows :
     n \in {0, 4, 49, 50},
     rows \in SeqsUpTo2({sampleRow.meta, sampleRow.title, sampleRow.items, sampleRow.header, sampleRow.header2, sampleRow.swapped,
                      sampleRow.data})}

callDetectHeader(impl, jsonData) ==
  /\ variant = (IF impl = "App" THEN "App" ELSE "P000")
  /\ Called(IF impl = "P002" THEN "detectHeader002" ELSE "detectHeader",
            jsonData, detectHeader(impl, jsonData))

\* ---- the rows below the header. parseFloat on a text with no '.' and no
\* exponent: leading blanks, a sign, then digits up to the first other
\* character; NaN when there is no digit.
digitOf(c) ==
  CASE c = "0" -> 0 [] c = "1" -> 1 [] c = "2" -> 2 [] c = "3" -> 3
    [] c = "4" -> 4 [] c = "5" -> 5 [] c = "6" -> 6 [] c = "7" -> 7
    [] c = "8" -> 8 [] c = "9" -> 9 [] OTHER -> 0 - 1

RECURSIVE parseDigits(_, _, _)
parseDigits(s, acc, seen) ==
  IF s = <<>> \/ digitOf(s[1]) < 0 THEN [nan |-> ~seen, val |-> acc]
  ELSE parseDigits(Tail(s), 10 * acc + digitOf(s[1]), TRUE)

RECURSIVE parseFloat(_)
parseFloat(s) ==
  IF s = <<>> THEN [nan |-> TRUE, val |-> 0]
  ELSE IF isSpace(s[1]) THEN parseFloat(Tail(s))
  ELSE IF s[1] = "-"
    THEN LET n == parseDigits(Tail(s), 0, FALSE) IN [n EXCEPT !.val = 0 - n.val]
  ELSE IF s[1] = "+" THEN parseDigits(Tail(s), 0, FALSE)
  ELSE parseDigits(s, 0, FALSE)

\* part_002 351-360: the dataRows filter, then the skips of the forEach
keepRowLedger(row) ==
  LET num == parseFloat(row.itemNum)
      itemLabel == toLowerCase(row.itemName)
  IN /\ (~num.nan /\ num.val # 0) \/ row.variance # 0
     /\ ~(includes(itemLabel, <<"t", "o", "t", "a", "l">>) \/ includes(itemLabel, <<"s", "u", "m", "m", "a", "r", "y">>))
     /\ row.variance # 0

\* part_002 362-384
buildRecordLedger(row, cleanName, period) ==
  LET invVar == row.variance
      cost == row.itemCost
      revenue == IF row.revenue = 0 /\ row.soldQty > 0 /\ row.salePrice > 0
                 THEN row.soldQty * row.salePrice ELSE row.revenue
  IN [itemNumber |-> row.itemNum, itemName |-> row.itemName,
      invVariance |-> invVar, totalRevenue |-> revenue,
      soldQty |-> row.soldQty, salePrice |-> row.salePrice,
      shrinkLoss |-> IF invVar < 0 THEN Abs(invVar * cost) ELSE 0,
      unitCost |-> cost, marketName |-> cleanName, period |-> period]

extractSheetLedger(sheet, period) ==
  LET Build(row) == buildRecordLedger(row, sheet.market, period)
  IN SelectMap(sheet.rows, keepRowLedger, Build)

\* the extractor of one implementation on the rows of one sheet
extractRows(impl, rows) ==
  LET sheet == [market |-> "A", rows |-> rows]
  IN CASE impl = "App" -> extractSheet(sheet, March)
       [] impl = "P000" -> extractSheetStaged(sheet, March)
       [] OTHER -> extractSheetLedger(sheet, March)

DataRows ==
  {Row(s_B1, s_Chips, 1, 0, 2, 3, 0 - 2, 0),
   Row(<<>>, <<>>, 5, 0, 0, 0, 1, 0),
   Row(s_200, <<"S", "U", "M", "M", "A", "R", "Y">>, 0 - 2, 10, 0, 0, 3, 6),
   Row(s_KF1, <<"G", "r", "a", "n", "d", " ", "T", "o", "t", "a", "l">>, 0 - 2, 10, 0, 0, 3, 6),
   Row(s_200, s_FBar, 0, 5, 1, 5, 2, 0)}

\* part_002 is a later copy of the staged component of part_000
callExtractRows(impl, rows) ==
  /\ variant = (IF impl = "App" THEN "App" ELSE "P000")
  /\ Called("extractRows", [impl |-> impl, rows |-> rows], extractRows(impl, rows))

\* ---- numeric coercion. A cell value is a string, a number, NaN or null.
Cell(t, s, n) == [t |-> t, s |-> s, n |-> n]

\* what val.replace(/[$,()]/g, '') keeps
isKept(c) == c \notin {"$", ",", "(", ")"}

\* cleanNumeric of part_001 178-185
cleanNumeric(val) ==
  CASE val.t = "number" -> val.n
    [] val.t # "string" \/ val.s = <<>> -> 0
    [] OTHER ->
         LET num == parseFloat(SelectSeq(val.s, isKept))
             isNegative == includes(val.s, <<"(">>) \/ includes(val.s, <<"-">>)
         IN IF num.nan THEN 0 ELSE num.val * (IF isNegative THEN 0 - 1 ELSE 1)

\* parseFloat(cell) || 0 of App.tsx 525-530
parseFloatOr0(val) ==
  CASE val.t = "number" -> val.n
    [] val.t = "string" ->
         LET num == parseFloat(val.s) IN IF num.nan THEN 0 ELSE num.val
    [] OTHER -> 0

coerce(impl, val) ==
  IF impl = "App" THEN parseFloatOr0(val) ELSE cleanNumeric(val)

CellValues ==
  {Cell("string", s, 0) : s \in {<<>>, <<"5">>,
       <<"-", "5">>,
       <<"(", "5", ")">>,
       <<"$", "5">>,
       <<"1", ",", "2", "0", "0">>,
       <<"$", "(", "1", "2", ")">>,
       <<"a", "b", "c">>,
       <<" ", "7">>,
       <<"(", "-", "5", ")">>,
       <<"-">>,
       <<"1", "2">>}}
    \cup {Cell("number", <<>>, n) : n \in {0 - 3, 0, 7}}
    \cup {Cell("NaN", <<>>, 0), Cell("null", <<>>, 0)}

callCoerce(impl, val) ==
  /\ variant = impl
  /\ Called("coerce", [impl |-> impl, val |-> val], coerce(impl, val))

\* ---- normalizePeriod on the texts a period label may be
PeriodTexts ==
  {<<>>, March, Current,
   <<"m", "a", "r", "c", "h", " ", "2", "0", "2", "4">>,
   <<" ", "A", "P", "R", "I", "L", " ">>,
   <<"Q", "1">>,
   <<" ", "Q", "1", " ">>,
   <<"M", "a", "r", " ", "2", "4">>,
   <<" ", " ">>,
   <<"M", "a", "y", "-", "J", "u", "n", "e">>,
   <<"d", "e", "c", "a", "f">>}

callNormalizePeriod(str) ==
  Called("normalizePeriod", str,
         IF variant = "P001" THEN normalizePeriodAbbrev(str)
         ELSE normalizePeriod(str))

\* ---- humanizeMarketName (App.tsx 104-118; part_000 47, part_002 52 alike)
marketPrefixes ==
  {<<"m", "a", "r", "k", "e", "t">>,
   <<"l", "o", "c", "a", "t", "i", "o", "n">>,
   <<"n", "a", "m", "e">>,
   <<"s", "i", "t", "e">>,
   <<"l", "o", "c">>,
   <<"m", "k", "t">>,
   <<"p", "o", "i", "n", "t", " ", "o", "f", " ", "s", "a", "l", "e">>,
   <<"p", "o", "s">>,
   <<"s", "i", "t", "e", " ", "n", "a", "m", "e">>}

\* name.replace(/^(Market|...|Site Name):\s*/i, '')
RECURSIVE dropBlanks(_)
dropBlanks(s) == IF s # <<>> /\ isSpace(s[1]) THEN dropBlanks(Tail(s)) ELSE s

stripPrefix(name) ==
  LET hits == {p \in marketPrefixes : startsWith(toLowerCase(name), p \o <<":">>)}
  IN IF hits = {} THEN name
     ELSE LET p == CHOOSE p \in hits : TRUE
          IN dropBlanks(SubSeq(name, Len(p) + 2, Len(name)))

\* the length of the match of /\s*[-|:/]\s+/ that starts at position i of s,
\* 0 when there is none
RECURSIVE blanksFrom(_, _)
blanksFrom(s, i) ==
  IF i <= Len(s) /\ isSpace(s[i]) THEN 1 + blanksFrom(s, i + 1) ELSE 0

separatorAt(s, i) ==
  LET j == i + blanksFrom(s, i)
  IN IF j <= Len(s) /\ s[j] \in {"-", "|", ":", "/"} /\ blanksFrom(s, j + 1) > 0
     THEN (j - i) + 1 + blanksFrom(s, j + 1)
     ELSE 0

\* cleaned.split(/\s*[-|:/]\s+/): the segment open at `start`, scanning at i
RECURSIVE split(_, _, _)
split(s, start, i) ==
  IF i > Len(s) THEN <<SubSeq(s, start, Len(s))>>
  ELSE IF separatorAt(s, i) > 0
    THEN <<SubSeq(s, start, i - 1)>>
           \o split(s, i + separatorAt(s, i), i + separatorAt(s, i))
  ELSE split(s, start, i + 1)

\* /^\d+$/ and /^[A-Z0-9]{2,4}$/
isNumeric(s) == s # <<>> /\ \A i \in DOMAIN s : digitOf(s[i]) >= 0
isShortCode(s) ==
  /\ Len(s) \in 2..4
  /\ \A i \in DOMAIN s :
       digitOf(s[i]) >= 0 \/ \E k \in DOMAIN UpperChars : UpperChars[k] = s[i]

RECURSIVE joinWith(_, _)
joinWith(segs, sep) ==
  IF segs = <<>> THEN <<>>
  ELSE IF Len(segs) = 1 THEN segs[1]
  ELSE segs[1] \o sep \o joinWith(Tail(segs), sep)

\* a humanizer without the fallback of its last line
humanizeMarketNameNoFallback(name) ==
  IF name = <<>> THEN <<>>
  ELSE LET cleaned == stripPrefix(name)
           segments == split(cleaned, 1, 1)
           Meaningful(seg) ==
             LET s == trim(seg)
             IN IF s = <<>> THEN FALSE
                ELSE IF Len(segments) = 1 THEN TRUE
                ELSE ~isNumeric(s) /\ ~isShortCode(s)
           meaningfulSegments == SelectSeq(segments, Meaningful)
       IN trim(joinWith(meaningfulSegments, <<" ", "-", " ">>))

humanizeMarketName(name) ==
  IF name = <<>> THEN <<>>
  ELSE LET cleaned == stripPrefix(name)
           segments == split(cleaned, 1, 1)
           Meaningful(seg) ==
             LET s == trim(seg)
             IN IF s = <<>> THEN FALSE
                ELSE IF Len(segments) = 1 THEN TRUE
                ELSE ~isNumeric(s) /\ ~isShortCode(s)
           meaningfulSegments == SelectSeq(segments, Meaningful)
       IN IF Len(meaningfulSegments) > 0
          THEN trim(joinWith(meaningfulSegments, <<" ", "-", " ">>))
          ELSE IF trim(cleaned) # <<>> THEN trim(cleaned) ELSE name

MarketTexts ==
  {<<>>,
   <<"X", "Y">>,
   <<"1", "2", "3">>,
   <<"M", "a", "r", "k", "e", "t", ":", " ", "B", "u", "i", "l", "d", "i", "n", "g", " ", "4", " ", "-", " ", "A", "B", "C">>,
   <<"1", "2", " ", "-", " ", "A", "B">>,
   <<"M", "a", "r", "k", "e", "t", ":", " ", "1", "2", " ", "-", " ", "A", "B">>,
   <<"M", "a", "r", "k", "e", "t", ":", " ">>,
   <<" ", " ">>,
   <<" ", "N", "o", "r", "t", "h", " ", "|", " ", "7">>,
   <<"A", "-", "B">>,
   <<"L", "o", "c", ":", "E", "a", "s", "t", " ", "/", " ", "0", "0", "4", "2", " ", "-", " ", "M", "a", "i", "n">>,
   <<"S", "i", "t", "e", " ", "N", "a", "m", "e", ":", " ", "D", "e", "p", "o", "t">>,
   <<"a", "b", " ", "-", " ", "c", "d">>,
   <<"-", " ", " ", "x">>}

callHumanizeMarketName(name) ==
  Called("humanizeMarketName", name, humanizeMarketName(name))

CallNext ==
  \/ \E filtered \in SeqsUpTo2(StatRecords(variant)) : callStats(filtered)
  \/ \E r \in RecordSlots(variant), m \in MonthSlots, k \in MarketSlots,
        s \in SegmentSlots :
       callLoad([records |-> r, months |-> m, market |-> k, segment |-> s])
  \/ \E impl \in {"App", "P000", "P002"}, jsonData \in RawSheets :
       callDetectHeader(impl, jsonData)
  \/ \E impl \in {"App", "P000", "P002"}, rows \in SeqsUpTo2(DataRows) :
       callExtractRows(impl, rows)
  \/ \E impl \in {"App", "P001"}, val \in CellValues : callCoerce(impl, val)
  \/ \E str \in PeriodTexts : callNormalizePeriod(str)
  \/ \E name \in MarketTexts : callHumanizeMarketName(name)

SpecCalls == Init /\ [][CallNext]_vars

\* ================================================================== claims
\* The store's records without their identifiers
stripIds(s) == [i \in DOMAIN s |-> [f \in DOMAIN s[i] \ {"id"} |-> s[i][f]]]

\* The commit of the running variant
commitOf(v, prev, staged, period, t) ==
  CASE v = "App" -> commitUpload(prev, staged, period, t)
    [] v = "P000" -> commitStaging(prev, staged, period, t)
    [] OTHER -> commitImportRecords(prev, staged, period, t)

\* The normalizer of the running variant, computed on the text itself
normalizedText(v, str) ==
  IF v = "P001" THEN normalizePeriodAbbrev(str) ELSE normalizePeriod(str)

\* The imports awaiting their commit: the staged import, or in App.tsx the
\* records an upload in flight will extract
PendingImports ==
  IF variant = "App"
  THEN {[records |-> extractRecords(Workbooks[x.file], targetPeriod(x)),
         period |-> targetPeriod(x)] : x \in BagToSet(reading)}
  ELSE {[records |-> importStaging[k].records,
         period |-> importStaging[k].period] : k \in DOMAIN importStaging}

\* The imports an upload of any input file to any month tile would hand to
\* the commit of the running variant
UploadableImportsOf ==
  [v \in Variants |->
    {[records |-> CASE v = "App" -> extractRecords(Workbooks[f], p)
                    [] v = "P000" -> extractRecordsStaged(Workbooks[f], p)
                    [] OTHER -> extractRecordsBatch(Workbooks[f], p),
      period |-> p] : f \in Files, p \in UploadMonths}]

UploadableImports == UploadableImportsOf[variant]

\* Some stored record has the normalized period of import I
Reimport(I) ==
  \E i \in DOMAIN records :
    normalizedText(variant, records[i].period) = normalizedText(variant, I.period)

\* The store after committing `staged` for period P, as the contract words it
C1_Post(P, staged) ==
  LET Survives(r) ==
        normalizedText(variant, r.period) # normalizedText(variant, P)
      survivors == SelectSeq(records, Survives)
      n == Len(survivors)
  IN /\ Len(records') = n + Len(staged)
     /\ SubSeq(records', 1, n) = survivors
     /\ \A i \in DOMAIN staged :
          /\ \A f \in DOMAIN staged[i] \ {"period"} :
               records'[n + i][f] = staged[i][f]
          /\ normalizedText(variant, records'[n + i].period)
               = normalizedText(variant, P)

\* C1: a commit for period P leaves the store equal to the previously stored
\* records whose normalized period differs from that of P, in their previous
\* order, followed by exactly the newly imported records.
C1_CommitReplacesPeriod ==
  [][ /\ commitImport =>
           C1_Post(importStaging[1].period, importStaging[1].records)
      /\ \A x \in BagToSet(reading) :
           (readerOnloadApp(x) /\ last' = "uploadCommit") =>
             C1_Post(targetPeriod(x),
                     extractRecords(Workbooks[x.file], targetPeriod(x))) ]_vars

\* C1 witness: a commit has just run and the store holds records of another
\* period, kept in front of the records it imported
C1_Witness ==
  /\ last \in {"commit", "uploadCommit"}
  /\ \E i, j \in DOMAIN records :
       /\ i < j
       /\ normalizedText(variant, records[i].period)
            # normalizedText(variant, records[j].period)

\* C2: committing the same import twice in a row leaves the same records,
\* identifiers aside, as committing it once: for every reachable store, every
\* import that awaits its commit or that an upload would produce, and every
\* two clock readings.
C2_CommitIdempotent ==
  \A I \in PendingImports \cup UploadableImports :
    \A t1 \in now..MaxClock : \A t2 \in t1..MaxClock :
      LET once == commitOf(variant, records, I.records, I.period, t1)
          twice == commitOf(variant, once, I.records, I.period, t2)
      IN stripIds(twice) = stripIds(once)

\* C2 witness: a non-empty import awaits its commit for a period the store
\* already holds records of
C2_Witness ==
  \E I \in PendingImports : I.records # <<>> /\ Reimport(I)

\* C3: no two records of the store have the same id.
C3_UniqueIds ==
  \A i, j \in DOMAIN records : i # j => records[i].id # records[j].id

\* C4: when an upload's extraction finishes, its records are staged and the
\* store is unchanged.
C4_UploadOnlyStages ==
  [][ \A x \in BagToSet(reading) :
        (\/ readerOnloadApp(x)
         \/ readerOnloadStaged(x)
         \/ \E m \in UploadMonths : readerOnloadBatch(x, m))
        => records' = records ]_vars

\* C5: a discard clears the staged import and leaves the store, the selected
\* months, the market filter, the segment filter and the view as they were.
C5_DiscardFrame ==
  [][ discard =>
        /\ importStaging' = NoStaging
        /\ UNCHANGED <<records, selectedMonths, selectedMarketFilter,
                       activeSegment, view>> ]_vars

\* C5 witness: a staged import has just been discarded over a store that
\* holds records and away from the landing view
C5_Witness ==
  /\ last = "discard"
  /\ importStaging = NoStaging
  /\ records # <<>>
  /\ view # "report-upload"

\* C6: only a commit and a confirmed purge change the store's records or
\* their order.
C6_StoreFrame ==
  [][ records' # records =>
        \/ commitImport
        \/ \E x \in BagToSet(reading) : readerOnloadApp(x)
        \/ purgeLedger(TRUE) ]_vars

\* C7: the sequence handed to an aggregation holds the same records in the
\* same order after the call: for the store and for the filtered set, for
\* getAggregates and for the dashboard stats.
C7_AggregationLeavesInput ==
  /\ stats(filteredRecords).input = filteredRecords
  /\ getAggregates(filteredRecords).input = filteredRecords
  /\ getAggregates(records).input = records

\* C8: a purge clears the store only when the prompt is accepted; declined,
\* it leaves the store, the selected months, the persisted slots and the view
\* as they were.
C8_PurgeOnlyOnConfirm ==
  [][ /\ purgeLedger(FALSE) =>
           UNCHANGED <<records, selectedMonths, storage, view>>
      /\ purgeLedger(TRUE) =>
           records' = <<>> /\ selectedMonths' = {} ]_vars

\* C8 witness: the prompt has just been declined over a store that holds
\* records and a selection
C8_Witness ==
  /\ last = "purgeDeclined"
  /\ records # <<>>
  /\ selectedMonths # {}

\* The records the extractor of App.tsx has produced: stored ones and those
\* of an upload in flight
ExtractedRecords ==
  {records[i] : i \in DOMAIN records}
    \cup UNION {{I.records[i] : i \in DOMAIN I.records} : I \in PendingImports}

\* C9: every extracted record has shrinkLoss >= 0 and overageGain >= 0, at
\* most one of them non-zero, and both zero when the variance is zero.
C9_LossAndGainSigns ==
  variant = "App" =>
    \A r \in ExtractedRecords :
      /\ r.shrinkLoss >= 0
      /\ r.overageGain >= 0
      /\ r.shrinkLoss = 0 \/ r.overageGain = 0
      /\ r.invVariance = 0 => (r.shrinkLoss = 0 /\ r.overageGain = 0)

\* The filter as the contract words it
C10_Passes(r) ==
  /\ selectedMonths = {} \/ normalizedText(variant, r.period) \in selectedMonths
  /\ selectedMarketFilter = "All" \/ selectedMarketFilter = r.marketName
  /\ \/ activeSegment = "ALL"
     \/ activeSegment = "COLD"
          /\ (coldPrefix(r.itemNumber) \/ coldPrefix(r.itemName))
     \/ activeSegment = "SODA_SNACK"
          /\ ~(coldPrefix(r.itemNumber) \/ coldPrefix(r.itemName))

\* C10: a stored record is in the filtered set exactly when it passes the
\* months, market and segment tests; an empty months selection passes every
\* period.
C10_FilterPredicate ==
  \A i \in DOMAIN records :
    (\E j \in DOMAIN filteredRecords : filteredRecords[j] = records[i])
      <=> C10_Passes(records[i])


\* The members of a sequence
Range(s) == {s[i] : i \in DOMAIN s}

\* The three filters, each alone over the full store with the other two at
\* their 'all' setting
MonthsAlone(months) == Range(filterRecords(variant, records, months, "All", "ALL"))
MarketAlone(market) == Range(filterRecords(variant, records, {}, market, "ALL"))
SegmentAlone(segment) == Range(filterRecords(variant, records, {}, "All", segment))

\* C11: in App.tsx and part_000, for every reachable store and every month
\* set, market and segment, the filtered set with all three filters active is
\* the intersection of the three sets filtered by one filter alone; the
\* filtered set on display is that intersection for the settings in force,
\* whatever the order they were set in.
C11_FilterComposition ==
  variant \in {"App", "P000"} =>
    /\ \A months \in SUBSET UploadMonths :
         \A market \in uniqueMarkets(records) : \A segment \in Segments :
           Range(filterRecords(variant, records, months, market, segment))
             = MonthsAlone(months) \cap MarketAlone(market) \cap SegmentAlone(segment)
    /\ Range(filteredRecords)
         = MonthsAlone(selectedMonths) \cap MarketAlone(selectedMarketFilter)
             \cap SegmentAlone(activeSegment)

\* C11 witness: all three filters are active, each alone keeps more than the
\* three together do, and something passes all three
C11_Witness ==
  /\ variant \in {"App", "P000"}
  /\ selectedMonths # {} /\ selectedMarketFilter # "All" /\ activeSegment # "ALL"
  /\ filteredRecords # <<>>
  /\ Range(filteredRecords) # MonthsAlone(selectedMonths)
  /\ Range(filteredRecords) # SegmentAlone(activeSegment)


\* C12: the reported accuracy is 100 when the summed revenue is not positive,
\* otherwise max(0, 100 * (1 - (shrink + overage) / revenue)) to two decimals,
\* and it always lies between 0 and 100 (here in hundredths of a percent).
C12_Accuracy ==
  call.fn = "stats" =>
    LET revenue == call.ret.totalRevenue
        error == call.ret.totalShrink + call.ret.totalOverage
        reported == call.ret.accuracy
    IN /\ revenue <= 0 => reported = 10000
       /\ revenue > 0 /\ error >= revenue => reported = 0
       /\ revenue > 0 /\ error < revenue =>
            2 * Abs(reported * revenue - 10000 * (revenue - error)) <= revenue
       /\ reported \in 0..10000

\* C12, the part of it the code keeps: the accuracy is never negative and is
\* 100 when the summed revenue is not positive.
C12_FloorAndNoRevenue ==
  call.fn = "stats" =>
    /\ call.ret.accuracy >= 0
    /\ call.ret.totalRevenue <= 0 => call.ret.accuracy = 10000


\* C13: loading never throws and falls back to the defaults: a slot that is
\* missing, unparseable or of the wrong shape gives the empty record list, the
\* empty month set, market 'All' and segment ALL, and the first filtering
\* after the load completes.
C13_LoadFallsBack ==
  call.fn = "load" =>
    /\ call.arg.records.t # "array" => call.ret.records = Slot("array", <<>>)
    /\ call.arg.months.t # "array" => call.ret.selectedMonths = {}
    /\ call.arg.market = "" => call.ret.selectedMarketFilter = "All"
    /\ call.arg.segment \notin Segments => call.ret.activeSegment = "ALL"
    /\ call.ret.firstRender.outcome = "ok"

\* C13, the part of it the code keeps: missing and unparseable slots give the
\* defaults, and the first filtering completes whenever the records slot is
\* missing, unparseable or an array.
C13_MissingOrUnparseable ==
  call.fn = "load" =>
    /\ call.arg.records.t \in {"missing", "garbage"} => call.ret.records = Slot("array", <<>>)
    /\ call.arg.months.t \in {"missing", "garbage"} => call.ret.selectedMonths = {}
    /\ call.arg.market = "" => call.ret.selectedMarketFilter = "All"
    /\ call.arg.segment = "" => call.ret.activeSegment = "ALL"
    /\ call.arg.records.t \in {"missing", "garbage", "array"}
         => call.ret.firstRender.outcome = "ok"


\* a row with an item keyword and a value keyword
C14_Qualifies(row) ==
  /\ hasItemKey(toLowerCase(join(row)))
  /\ hasValueKey(toLowerCase(join(row)))

\* C14: the header row is the lowest-indexed row among the first 50 whose
\* joined lower-cased cells contain an item keyword and a value keyword, no
\* row at index 50 or later is chosen, and a sheet of four metadata rows and
\* the row ["Item Number","Description","Inv Variance","Revenue"] has that
\* row chosen with the map itemNumber 0, itemName 1, variance 2, revenue 3.
C14_HeaderRow ==
  call.fn = "detectHeader" =>
    LET jsonData == call.arg
        qualifying == {i \in 0..(Len(jsonData) - 1) :
                         i < 50 /\ C14_Qualifies(jsonData[i + 1])}
        chosen == call.ret.headerRowIndex
        colMap == call.ret.colMap
    IN /\ qualifying = {} => chosen = 0 - 1
       /\ qualifying # {} =>
            chosen \in qualifying /\ \A i \in qualifying : chosen <= i
       /\ chosen < 50
       /\ (Len(jsonData) >= 5 /\ jsonData[5] = sampleRow.header /\ 4 \in qualifying
            /\ \A i \in qualifying : 4 <= i)
           => /\ chosen = 4
              /\ colMap.itemNum = 0 /\ colMap.itemName = 1
              /\ colMap.variance = 2 /\ colMap.revenue = 3

\* C14, the part of it the code keeps: in App.tsx, on every sheet of five
\* rows or more, the header is the lowest qualifying row of the first 50,
\* and the example sheet gets the example map in both variants.
C14_HeaderRowOfLongSheets ==
  (call.fn = "detectHeader" /\ Len(call.arg) >= 5) =>
    LET jsonData == call.arg
        qualifying == {i \in 0..(Len(jsonData) - 1) :
                         i < 50 /\ C14_Qualifies(jsonData[i + 1])}
        chosen == call.ret.headerRowIndex
        colMap == call.ret.colMap
    IN /\ variant = "App" /\ qualifying = {} => chosen = 0 - 1
       /\ variant = "App" /\ qualifying # {} =>
            chosen \in qualifying /\ \A i \in qualifying : chosen <= i
       /\ chosen < 50
       /\ (jsonData[5] = sampleRow.header /\ \A i \in 1..4 : jsonData[i] = sampleRow.meta)
           => /\ chosen = 4
              /\ colMap.itemNum = 0 /\ colMap.itemName = 1
              /\ colMap.variance = 2 /\ colMap.revenue = 3


\* the workbook of read x yields no record in variant v
C15_YieldsNothing(v, x) ==
  IF v = "App" THEN extractRecords(Workbooks[x.file], targetPeriod(x)) = <<>>
  ELSE extractRecordsStaged(Workbooks[x.file], targetPeriod(x)) = <<>>

\* C15: when a whole workbook yields zero records, a 'no data' notice is
\* raised and the store, the selected months and any staging set are left as
\* they were (App.tsx and part_000).
C15_NoDataLeavesState ==
  [][(\E x \in BagToSet(reading) :
        /\ C15_YieldsNothing(variant, x)
        /\ (readerOnloadApp(x) \/ readerOnloadStaged(x)))
     => (/\ last' = "uploadNoData"
         /\ UNCHANGED <<records, selectedMonths, importStaging>>) ]_vars

\* C15 in App.tsx alone
C15_NoDataLeavesStateApp ==
  [][(\E x \in BagToSet(reading) :
        /\ C15_YieldsNothing(variant, x)
        /\ readerOnloadApp(x))
     => (/\ last' = "uploadNoData"
         /\ UNCHANGED <<records, selectedMonths, importStaging>>) ]_vars


\* the rows the claim tells to skip, and the record a row has given
C16_Skippable(row) ==
  \/ row.itemNum = <<>> /\ row.itemName = <<>>
  \/ includes(toLowerCase(row.itemName), <<"t", "o", "t", "a", "l">>)
  \/ includes(toLowerCase(row.itemName), <<"s", "u", "m", "m", "a", "r", "y">>)

C16_RecordOf(row, recs) ==
  \E k \in DOMAIN recs :
    recs[k].itemNumber = row.itemNum /\ recs[k].itemName = row.itemName

\* C16: a row below the header gives no record when its item number and
\* item name are both empty, nor when its item name contains 'total' or
\* 'summary' in any letter case; the rows after a skipped row are still
\* processed (App.tsx and part_002).
C16_SkippedRows ==
  (call.fn = "extractRows" /\ call.arg.impl \in {"App", "P002"}) =>
    \A i \in DOMAIN call.arg.rows :
      LET row == call.arg.rows[i]
      IN /\ C16_Skippable(row) => ~C16_RecordOf(row, call.ret)
         /\ (~C16_Skippable(row) /\ row.variance # 0) => C16_RecordOf(row, call.ret)

\* C16, the part of it the code keeps: a 'total' row gives no record in
\* either implementation, and a row with a variance that nothing tells to
\* skip gives one, whatever rows come before it.
C16_TotalRows ==
  (call.fn = "extractRows" /\ call.arg.impl \in {"App", "P002"}) =>
    \A i \in DOMAIN call.arg.rows :
      LET row == call.arg.rows[i]
      IN /\ includes(toLowerCase(row.itemName), <<"t", "o", "t", "a", "l">>)
              => ~C16_RecordOf(row, call.ret)
         /\ (~C16_Skippable(row) /\ row.variance # 0) => C16_RecordOf(row, call.ret)


\* in variant v the store and the staging set hold no zero variance
C17_NonZero(v) ==
  variant = v =>
    /\ \A i \in DOMAIN records : records[i].invVariance # 0
    /\ \A k \in DOMAIN importStaging :
         \A i \in DOMAIN importStaging[k].records :
           importStaging[k].records[i].invVariance # 0

\* C17: no record of zero inventory variance is ever extracted: every record
\* of the staging set and of the store has a non-zero variance (App.tsx and
\* part_000).
C17_NoZeroVariance == C17_NonZero("App") /\ C17_NonZero("P000")

\* C17 in the staged component of part_000
C17_NoZeroVarianceStaged == C17_NonZero("P000")

\* C17 for the extractors of part_000 and part_002 on any rows
C17_NoZeroVarianceExtracted ==
  (call.fn = "extractRows" /\ call.arg.impl # "App") =>
    \A k \in DOMAIN call.ret : call.ret[k].invVariance # 0


\* a text of decimal digits only, and the number it writes
C18_Digits(s) == s # <<>> /\ \A i \in DOMAIN s : digitOf(s[i]) >= 0
C18_Value(s) == parseDigits(s, 0, FALSE).val

\* C18: coercion turns "(m)" and "-m" into -m and "$m" into m, and gives 0
\* for an empty, null, NaN or unparseable value.
C18_Coercion ==
  call.fn = "coerce" =>
    LET val == call.arg.val
        s == val.s
        inner == SubSeq(s, 2, Len(s) - 1)
        rest == Tail(s)
    IN /\ (Len(s) >= 3 /\ s[1] = "(" /\ s[Len(s)] = ")" /\ C18_Digits(inner))
            => call.ret = 0 - C18_Value(inner)
       /\ (Len(s) >= 2 /\ s[1] = "-" /\ C18_Digits(rest))
            => call.ret = 0 - C18_Value(rest)
       /\ (Len(s) >= 2 /\ s[1] = "$" /\ C18_Digits(rest))
            => call.ret = C18_Value(rest)
       /\ (\/ val.t \in {"NaN", "null"}
           \/ val.t = "string" /\ \A i \in DOMAIN s : digitOf(s[i]) < 0)
            => call.ret = 0

\* C18, the part of it both implementations keep: a number is itself, digits
\* alone are their value, and an empty, null, NaN or digitless value is 0.
C18_PlainAndEmpty ==
  call.fn = "coerce" =>
    LET val == call.arg.val
    IN /\ val.t = "number" => call.ret = val.n
       /\ C18_Digits(val.s) => call.ret = C18_Value(val.s)
       /\ (\/ val.t \in {"NaN", "null"}
           \/ val.t = "string" /\ \A i \in DOMAIN val.s : digitOf(val.s[i]) < 0)
            => call.ret = 0


\* the canonical months whose name the text contains, in any letter case
C19_MonthsIn(str) ==
  {k \in DOMAIN MONTH_ORDER : includes(toLowerCase(str), toLowerCase(MONTH_ORDER[k]))}

\* C19: normalizePeriod returns the canonical month the input contains in
\* any letter case, otherwise the input without its leading and trailing
\* whitespace, 'Unknown' when the input is empty; and it is idempotent.
C19_NormalizePeriod ==
  call.fn = "normalizePeriod" =>
    LET str == call.arg
        months == C19_MonthsIn(str)
    IN /\ str = <<>> => call.ret = Unknown
       /\ months # {} => \E k \in months : call.ret = MONTH_ORDER[k]
       /\ (str # <<>> /\ months = {}) => call.ret = trim(str)
       /\ normalizedText(variant, call.ret) = call.ret

\* C19, the part of it every variant keeps: the empty input gives 'Unknown',
\* an input that contains month names gives the first of them in calendar
\* order, and the function is idempotent.
C19_MonthsAndIdempotence ==
  call.fn = "normalizePeriod" =>
    LET str == call.arg
        months == C19_MonthsIn(str)
    IN /\ str = <<>> => call.ret = Unknown
       /\ months # {} =>
            \E k \in months : call.ret = MONTH_ORDER[k] /\ \A j \in months : k <= j
       /\ normalizedText(variant, call.ret) = call.ret


\* every stored record carries a period that normalizePeriod leaves as it is
C20_StoredPeriods ==
  \A i \in DOMAIN records :
    records[i].period = norm(variant, records[i].period)

\* a commit of a non-empty import drops exactly the stored records whose
\* normalized period is the period written on the new records
C20_KeyIsStoredPeriod ==
  (\/ commitImport /\ importStaging[1].records # <<>>
   \/ \E x \in BagToSet(reading) : readerOnloadApp(x) /\ last' = "uploadCommit")
  => LET p == records'[Len(records')].period
         Other(r) == norm(variant, r.period) # p
         kept == SelectSeq(records, Other)
     IN /\ Len(records') > Len(kept)
        /\ SubSeq(records', 1, Len(kept)) = kept
        /\ \A i \in (Len(kept) + 1)..Len(records') : records'[i].period = p
        /\ p = norm(variant, p)

\* C20: every stored record satisfies r.period = normalizePeriod(r.period),
\* and the key a commit uses to replace a period is the normalized value
\* stored on the new records.
C20_PeriodsNormalized ==
  /\ []C20_StoredPeriods
  /\ [][C20_KeyIsStoredPeriod]_vars

\* C20 witness: a commit has just run and the store holds the records of two
\* periods, one of them the label 'Current' of an upload without a month tile
C20_Witness ==
  /\ last \in {"commit", "uploadCommit"}
  /\ \E i, j \in DOMAIN records : records[i].period # records[j].period
  /\ \E i \in DOMAIN records : records[i].period = Current


\* the segments of a raw market text, and those the contract keeps: not
\* blank, and neither purely numeric nor a 2-4 character code of capitals
\* and digits unless the text has a single segment
C21_Segments(name) == split(stripPrefix(name), 1, 1)

C21_Kept(name) ==
  LET segs == C21_Segments(name)
      Keep(seg) ==
        /\ trim(seg) # <<>>
        /\ Len(segs) = 1 \/ (~isNumeric(trim(seg)) /\ ~isShortCode(trim(seg)))
  IN SelectSeq(segs, Keep)

\* C21 as stated: humanizeMarketName returns a non-empty label for every raw
\* input, drops numeric and short-code segments unless there is a single
\* segment ("Market: Building 4 - ABC" gives "Building 4", "XY" gives "XY"),
\* and falls back to the trimmed input, then the raw input, when every
\* segment is dropped.
C21_NeverEmpty ==
  call.fn = "humanizeMarketName" =>
    LET name == call.arg
    IN /\ call.ret # <<>>
       /\ name = <<"M", "a", "r", "k", "e", "t", ":", " ", "B", "u", "i", "l", "d", "i", "n", "g", " ", "4", " ", "-", " ", "A", "B", "C">> => call.ret = <<"B", "u", "i", "l", "d", "i", "n", "g", " ", "4">>
       /\ name = <<"X", "Y">> => call.ret = <<"X", "Y">>
       /\ C21_Kept(name) # <<>>
            => call.ret = trim(joinWith(C21_Kept(name), <<" ", "-", " ">>))
       /\ C21_Kept(name) = <<>>
            => call.ret = (IF trim(name) # <<>> THEN trim(name) ELSE name)

\* C21 amended: for every non-empty raw input the label is non-empty;
\* numeric and short-code segments are dropped unless there is a single
\* segment; when every segment is dropped the label is the input without its
\* prefix, trimmed, and the raw input when that is empty.
C21_NonEmptyForNonEmpty ==
  (call.fn = "humanizeMarketName" /\ call.arg # <<>>) =>
    LET name == call.arg
        cleaned == stripPrefix(name)
    IN /\ call.ret # <<>>
       /\ name = <<"M", "a", "r", "k", "e", "t", ":", " ", "B", "u", "i", "l", "d", "i", "n", "g", " ", "4", " ", "-", " ", "A", "B", "C">> => call.ret = <<"B", "u", "i", "l", "d", "i", "n", "g", " ", "4">>
       /\ name = <<"X", "Y">> => call.ret = <<"X", "Y">>
       /\ C21_Kept(name) # <<>>
            => call.ret = trim(joinWith(C21_Kept(name), <<" ", "-", " ">>))
       /\ C21_Kept(name) = <<>>
            => call.ret = (IF trim(cleaned) # <<>> THEN trim(cleaned) ELSE name)

\* C21 witness: a text of several segments, each of them dropped, has been
\* humanized
C21_Witness ==
  /\ call.fn = "humanizeMarketName"
  /\ Len(C21_Segments(call.arg)) > 1
  /\ C21_Kept(call.arg) = <<>>
  /\ call.ret # <<>>

\* ------------------------------------------------------------------ C22
\* C22: when the collaborator reports 'authorization required', for a quick
\* query or a deep dive, the key is marked inactive, a deep dive goes from
\* analyzing back to idle and is not ready, the store and the filter state are
\* as before; and the sentinel is never the stored deep-dive result nor the
\* answer text on display.
C22_AuthorizationRequired ==
  /\ [](deepDiveResult # reply.sentinel /\ quickAiText # reply.sentinel)
  /\ [][steps' # steps /\ last' \in {"quickAuth", "deepAuth"} =>
         /\ ~isKeyActive'
         /\ last' = "quickAuth" => quickAiText' = reply.offline
         /\ last' = "deepAuth" => /\ deepDiveStatus = "analyzing"
                                  /\ deepDiveStatus' = "idle"
                                  /\ deepDiveResult' = deepDiveResult
         /\ UNCHANGED <<records, selectedMonths, selectedMarketFilter,
                        activeSegment>>]_vars

\* a deep dive was refused after a quick query had been refused
C22_Witness ==
  /\ last = "deepAuth"
  /\ deepDiveStatus = "idle"
  /\ deepDiveResult = <<>>
  /\ quickAiText = reply.offline
  /\ ~isKeyActive

\* ------------------------------------------------------------------ C23
\* C23 as stated: while a quick query is in flight a new one can be started
\* (the insights view being at hand, with a question and a ledger to ask about).
C23_CanStartWhileInFlight ==
  (/\ streams # <<>>
   /\ ~Covered /\ ~isProcessing
   /\ view = "ai-insights"
   /\ records # <<>> /\ filteredRecords # <<>>
   /\ steps < MaxSteps)
  => ENABLED (\/ \E customPrompt \in {"", "Which items leak most?"} :
                  handleRunQuickAI(customPrompt)
              \/ \E thrown \in BOOLEAN : handleRunAI(thrown))

\* C23: no quick query is started while an earlier one is in flight, so at
\* most one runs at a time, the analyzing flag being set for as long; and the
\* answer text on display after a delivery is the text delivered.
C23_OneQuickQuery ==
  /\ [](Len(streams) <= 1 /\ (streams # <<>> => isQuickAnalyzing))
  /\ [][(/\ last' = "chunk" /\ steps' # steps
         /\ streams'[1].fullText # streams[1].fullText)
        => quickAiText' = streams'[1].fullText]_vars

\* one query in flight, part of its answer on display
C23_Witness ==
  /\ Len(streams) = 1
  /\ isQuickAnalyzing
  /\ Len(streams[1].fullText) = 2
  /\ quickAiText = streams[1].fullText

\* ------------------------------------------------------------------ C24
\* b begins with a
C24_Extends(a, b) == Len(a) <= Len(b) /\ SubSeq(b, 1, Len(a)) = a

\* C24 as stated: for as long as one quick query streams, the answer text on
\* display only grows.
C24_VisibleTextOnlyGrows ==
  [][(/\ streams # <<>> /\ streams' # <<>>
      /\ streams[1].open /\ streams'[1].open)
     => C24_Extends(quickAiText, quickAiText')]_vars

\* C24: each chunk extends the text delivered before by that chunk, so that
\* the text delivered is the concatenation of the chunks so far; a non-empty
\* chunk puts it on display at once, where it extends the text on display if
\* that was the previous delivery; and while the query streams the text on
\* display changes only by a delivery or by viewing a deep-dive result.
C24_IncrementalDelivery ==
  /\ [][last' = "chunk" /\ steps' # steps =>
         LET before == streams[1].fullText
             sent == streams'[1].sent
             chunk == sent[Len(sent)]
             delivered == streams'[1].fullText
         IN /\ delivered = before \o chunk
            /\ delivered = Flatten(sent)
            /\ chunk # <<>> => quickAiText' = delivered
            /\ chunk # <<>> /\ quickAiText = before =>
                 quickAiText' = quickAiText \o chunk
            /\ chunk = <<>> => quickAiText' = quickAiText]_vars
  /\ [][(/\ streams # <<>> /\ streams[1].open
         /\ last' \notin {"chunk", "viewDeepDive"}
         /\ streams' # <<>>)
        => quickAiText' = quickAiText]_vars

\* the second of two chunks has just arrived and both are on display
C24_Witness ==
  /\ last = "chunk"
  /\ streams # <<>>
  /\ streams[1].sent = <<<<"a">>, <<"b">>>>
  /\ quickAiText = <<"a", "b">>

\* ------------------------------------------------------------------ C25
\* C25: at most one deep-dive request is in flight, and one is exactly while
\* the status is 'analyzing'; a request is issued only from 'idle' with a
\* non-empty filtered set; and the status changes only from idle to analyzing
\* (a request issued), analyzing to ready (a text stored), analyzing to idle
\* (authorization required) and ready to idle (the stored result copied into
\* the answer text, no request issued).
C25_DeepDiveStatus ==
  /\ [](deepInFlight <= 1 /\ (deepInFlight = 1 <=> deepDiveStatus = "analyzing"))
  /\ [][deepInFlight' > deepInFlight =>
         /\ deepDiveStatus = "idle"
         /\ filteredRecords # <<>>
         /\ deepDiveStatus' = "analyzing"]_vars
  /\ [][deepDiveStatus' # deepDiveStatus =>
         \/ /\ deepDiveStatus = "idle" /\ deepDiveStatus' = "analyzing"
            /\ deepInFlight' = deepInFlight + 1
         \/ /\ deepDiveStatus = "analyzing" /\ deepDiveStatus' = "ready"
            /\ deepInFlight' = deepInFlight - 1
            /\ deepDiveResult' # <<>>
         \/ /\ deepDiveStatus = "analyzing" /\ deepDiveStatus' = "idle"
            /\ deepInFlight' = deepInFlight - 1
            /\ deepDiveResult' = deepDiveResult
         \/ /\ deepDiveStatus = "ready" /\ deepDiveStatus' = "idle"
            /\ deepInFlight' = deepInFlight
            /\ quickAiText' = deepDiveResult]_vars

\* a report was produced and has been viewed
C25_Witness ==
  /\ last = "viewDeepDive"
  /\ deepDiveStatus = "idle"
  /\ deepInFlight = 0
  /\ deepDiveResult = <<"a">>
  /\ quickAiText = <<"a">>

\* ------------------------------------------------------------------ C26
\* C26 as stated: a chunk that arrives right after a deep-dive result was
\* viewed, hence of a quick query streaming at the time, leaves the answer
\* text on display as it is.
C26_ViewedResultStays ==
  [][last = "viewDeepDive" /\ last' = "chunk" => quickAiText' = quickAiText]_vars

\* C26: a deep-dive result that has just been viewed is the answer text on
\* display; a non-empty chunk of a quick query streaming at the time replaces
\* it by that query's text so far; an empty chunk, a deep-dive request and
\* its settling, and the arrival of the key leave it on display.
C26_ViewedResultUntilNextDelivery ==
  /\ [](last = "viewDeepDive" => quickAiText = deepDiveResult)
  /\ [][last = "viewDeepDive" /\ steps' # steps =>
         /\ last' = "chunk" =>
              quickAiText' =
                IF streams'[1].fullText # streams[1].fullText
                THEN streams'[1].fullText ELSE quickAiText
         /\ last' \in {"deepDive", "deepDiveDone", "deepAuth", "initConfig"} =>
              quickAiText' = quickAiText]_vars

\* a report is viewed while a quick query has delivered part of its answer
C26_Witness ==
  /\ last = "viewDeepDive"
  /\ streams # <<>>
  /\ streams[1].open
  /\ streams[1].fullText # <<>>
  /\ quickAiText = deepDiveResult
  /\ deepDiveResult \in Chunks

\* ------------------------------------------------------------------ C28
\* C28: every started quick query clears the analyzing flag and the active
\* chip in the end, and no second one is issued while the flag is set. The
\* flag is cleared by the continuation of a query in flight and by nothing
\* else, so the claim is that one is in flight whenever the flag is set, that
\* its end clears the flag and the chip, and that none is issued meanwhile.
C28_QuickQueryEnds ==
  /\ [](isQuickAnalyzing => streams # <<>>)
  /\ [][Len(streams') < Len(streams) =>
         ~isQuickAnalyzing' /\ activeChip' = "null"]_vars
  /\ [][Len(streams') > Len(streams) => ~isQuickAnalyzing]_vars

\* ------------------------------------------------------------------ C27
\* C27: every started upload clears the processing flag in the end. The flag
\* is cleared by the handlers of a read in flight and by nothing else, so the
\* claim is that a read is in flight whenever the flag is set, and that the
\* end of the last read leaves the flag cleared.
C27_ProcessingEnds ==
  /\ [](isProcessing => reading # EmptyBag)
  /\ [][reading # EmptyBag /\ reading' = EmptyBag => ~isProcessing']_vars

\* ------------------------------------------------------------------ C29
\* C29: in App.tsx and part_000, from an empty store and an empty selection,
\* every selected month is the normalized period of a stored record; a commit
\* adds the normalized period it commits to the selection and removes none; a
\* purge empties the selection and the store.
C29_SelectedMonthsStored ==
  /\ [](variant \in {"App", "P000"} =>
         \A m \in selectedMonths :
           \E i \in DOMAIN records : norm(variant, records[i].period) = m)
  /\ [][(/\ variant \in {"App", "P000"}
         /\ steps' # steps
         /\ last' \in {"commit", "uploadCommit"})
        => /\ selectedMonths \subseteq selectedMonths'
           /\ last' = "commit" =>
                selectedMonths' =
                  selectedMonths \cup {norm(variant, importStaging[1].period)}
           /\ last' = "uploadCommit" =>
                selectedMonths' =
                  selectedMonths \cup {records'[Len(records')].period}]_vars
  /\ [][steps' # steps /\ last' = "purge" =>
         records' = <<>> /\ selectedMonths' = {}]_vars

\* ------------------------------------------------------------------ C30
\* C30: after header detection in App.tsx and part_002 has found a header
\* row, the column map gives pairwise distinct indexes to the seven fields,
\* so that no column is read for two of them.
C30_DistinctColumns ==
  (/\ \/ call.fn = "detectHeader" /\ variant = "App"
      \/ call.fn = "detectHeader002"
   /\ call.ret.headerRowIndex >= 0)
  => \A f, g \in DOMAIN DefaultColMap :
       f # g => call.ret.colMap[f] # call.ret.colMap[g]

====
